---- MODULE Spec2Model ----
(***************************************************************************)
(* A model of scripts/quality_score.py: the line-oriented issue detectors  *)
(* (IssueDetector), the rubric scorer (QualityScorer) and the batch loop   *)
(* of main.                                                                *)
(*                                                                         *)
(* Document text is a sequence of tokens.  A token stands for a run of     *)
(* characters that the detectors' regular expressions and substring tests  *)
(* treat as a unit; it carries its kind, the name it captures (if any) and *)
(* its width in characters, so that str.split, str.strip and len are       *)
(* computed as the code computes them.                                     *)
(***************************************************************************)
EXTENDS Integers, Sequences, FiniteSets, TLC

VARIABLES
    content,   \* the text of the document under scan (a token sequence)
    syn,       \* the frame of IssueDetector.check_latex_syntax
    eqo,       \* the frame of IssueDetector.check_equation_overflow
    env,       \* what the file system and the toolchain hold for the document
    scorer,    \* the QualityScorer object and the position in its score_* method
    mainf,     \* the frame of main
    cit,       \* the frame of check_broken_citations / check_quarto_citations
    hbx,       \* the frame of IssueDetector.check_overfull_hbox_risk
    hashseed,  \* the set iteration orders the interpreter process has fixed
    history    \* the results printed by the processes that have exited

vars == <<content, syn, eqo, env, scorer, mainf, cit, hbx, hashseed, history>>

\* what each function leaves alone: everything but its own frame
synOthers == <<content, eqo, env, scorer, mainf, cit, hbx, hashseed, history>>
eqoOthers == <<content, syn, env, scorer, mainf, cit, hbx, hashseed, history>>
scorerOthers == <<content, syn, eqo, env, mainf, cit, hbx, hashseed, history>>
\* the same for a step of the scorer that iterates over a set
iterOthers == <<content, syn, eqo, env, mainf, cit, hbx, history>>
mainOthers == <<syn, eqo, cit, hbx, hashseed, history>>
citOthers == <<content, syn, eqo, env, scorer, mainf, hbx, hashseed, history>>
hbxOthers == <<content, syn, eqo, env, scorer, mainf, cit, hashseed, history>>

(***************************************************************************)
(* Bounds of the model.                                                    *)
(***************************************************************************)
\* longest document text, in tokens, given to check_latex_syntax
MaxLatexTokens == 5
\* longest document text, in tokens, given to check_equation_overflow
MaxEqTokens == 5
\* most lines of a scored .qmd, .tex, .py and .R document
MaxQmdLines == 3
MaxTexLines == 4
MaxPyLines == 3
MaxRLines == 5
\* most htmlwidget markers in the rendered output
MaxWidgets == 1
\* most file paths on the command line
MaxBatch == 2
\* longest document text, in tokens, given to the citation checkers
MaxCiteTokens == 4
\* longest document text, in tokens, given to check_overfull_hbox_risk
MaxHboxTokens == 4
\* longest document text with starred environments, in tokens, given to
\* check_latex_syntax
MaxStarTokens == 4

(***************************************************************************)
(* The frames of the functions while they are not running.                 *)
(***************************************************************************)
SynIdle == [pc |-> "idle", i |-> 0, nb |-> 0, ne |-> 0, env_stack |-> <<>>, issues |-> <<>>]

EqIdle == [pc |-> "idle", i |-> 0, in_math |-> FALSE, math_start |-> 0,
           math_delim |-> "None", overflows |-> <<>>]

\* self.issues = {'critical': [], 'major': [], 'minor': []}
NoIssues == [critical |-> <<>>, major |-> <<>>, minor |-> <<>>]

\* no report generated yet
NoReport == [score |-> 0, status |-> "NONE", threshold |-> "", auto_fail |-> FALSE,
             issues |-> NoIssues,
             counts |-> [critical |-> 0, major |-> 0, minor |-> 0, total |-> 0]]

\* QualityScorer.__init__: score 100, empty issue lists, auto_fail False
NewScorer == [pc |-> "new", score |-> 100, issues |-> NoIssues, auto_fail |-> FALSE,
              pending |-> <<>>, report |-> NoReport]

ScorerIdle == [NewScorer EXCEPT !.pc = "idle"]

\* a bibliography or rendered-output file that does not exist
NoBib == [exists |-> FALSE, entries |-> <<>>]
NoHtml == [exists |-> FALSE, widgets |-> 0]

EnvIdle == [suffix |-> "", exists |-> FALSE, readable |-> FALSE, probe |-> "ok",
            bib_up |-> NoBib, bib_here |-> NoBib, html |-> NoHtml]

MainIdle == [pc |-> "idle", files |-> <<>>, idx |-> 0, results |-> <<>>, exit_code |-> 0]

CitIdle == [pc |-> "idle", fn |-> "", j |-> 0, open |-> FALSE, acc |-> {},
            cited_keys |-> {}, result |-> <<>>]

HbxIdle == [pc |-> "idle", i |-> 0, in_frame |-> FALSE, issues |-> <<>>]

\* every frame that a specification does not run, and a fresh process
AtRest(frames) ==
    /\ ("syn" \in frames => syn = SynIdle)
    /\ ("eqo" \in frames => eqo = EqIdle)
    /\ ("scorer" \in frames => scorer = ScorerIdle)
    /\ ("mainf" \in frames => mainf = MainIdle)
    /\ ("cit" \in frames => cit = CitIdle)
    /\ ("hbx" \in frames => hbx = HbxIdle)
    /\ hashseed = {}
    /\ history = <<>>

(***************************************************************************)
(* Tokens.                                                                 *)
(***************************************************************************)
\* a token: kind, captured name, captured key list, width in characters
Tok(k, name, w) == [k |-> k, name |-> name, keys |-> <<>>, w |-> w]

\* len(n) for the environment names and citation keys the model uses
NameLen(n) ==
    CASE n = "frame" -> 5
      [] n = "itemize" -> 7
      [] n = "equation" -> 8
      [] n = "smith2020" -> 9
      [] n = "jones2019" -> 9
      [] n = "doe2021" -> 7
      [] n = "fig" -> 3
      [] n = "example.com" -> 11

RECURSIVE KeysLen(_)
\* len of a comma-separated key list
KeysLen(keys) ==
    IF keys = <<>> THEN 0
    ELSE NameLen(Head(keys)) + (IF Len(keys) > 1 THEN 1 ELSE 0) + KeysLen(Tail(keys))

\* "\begin{name}"
Begin(n) == Tok("begin", n, 8 + NameLen(n))
\* "\end{name}"
End(n) == Tok("end", n, 6 + NameLen(n))
\* "\begin{name*}"
BeginStar(n) == Tok("begin*", n, 9 + NameLen(n))
\* "\end{name*}"
EndStar(n) == Tok("end*", n, 7 + NameLen(n))
\* the display-math fence "$$"
FENCE == Tok("fence", "", 2)
\* the line separator "\n"
NL == Tok("nl", "", 1)
\* the comment marker "%"
PCT == Tok("pct", "", 1)
\* one blank
SP == Tok("sp", "", 1)
\* a run of n ordinary characters: no blank, no marker, no keyword
Txt(n) == Tok("txt", "", n)
\* "\cite{k1,k2,...}"
Cite(keys) == [k |-> "cite", name |-> "", keys |-> keys, w |-> 7 + KeysLen(keys)]
\* "@key" after a character that is neither a word character nor a period
At(n) == Tok("at", n, 1 + NameLen(n))
\* "x@key": an at-sign after a word character, as in an e-mail address
Email(n) == Tok("email", n, 2 + NameLen(n))
\* "[" and "]"
LBR == Tok("lbr", "", 1)
RBR == Tok("rbr", "", 1)
\* "plotly::plot_ly"
Plotly == Tok("plotly", "", 15)
\* a quoted absolute path, as in "/data/x.csv"
AbsPath == Tok("abspath", "", 13)
\* a quoted path under /tmp/, as in "/tmp/x.csv"
TmpPath == Tok("tmppath", "", 12)
\* a quoted URL, as in "http://x.org"
Url == Tok("url", "", 14)
\* "from numpy import *"
WildImport == Tok("wildimport", "", 19)
\* "np.random.rand()"
NpRandom == Tok("np.random", "", 16)
\* "np.random.seed(1)"
NpSeed == Tok("np.random.seed", "", 17)
\* "rnorm(10)"
RNorm == Tok("rnorm", "", 9)
\* "set.seed(1)"
SetSeed == Tok("set.seed", "", 11)
\* the docstring quotes
DocQ == Tok("docq", "", 3)
\* "#!"
Shebang == Tok("shebang", "", 2)
\* "\includegraphics"
Directive == Tok("directive", "", 16)

(***************************************************************************)
(* String helpers, computed as Python computes them.                       *)
(***************************************************************************)
RECURSIVE SumWidths(_)
\* len(s): the number of characters of a token sequence
SumWidths(s) == IF s = <<>> THEN 0 ELSE Head(s).w + SumWidths(Tail(s))

\* position of the first token of kind k in s, or 0
RECURSIVE FirstOfKind(_, _, _)
FirstOfKind(s, k, from) ==
    IF from > Len(s) THEN 0
    ELSE IF s[from].k = k THEN from
    ELSE FirstOfKind(s, k, from + 1)

RECURSIVE SplitOn(_, _)
\* s.split(sep) for a one-token separator: always at least one piece
SplitOn(s, k) ==
    LET p == FirstOfKind(s, k, 1)
    IN IF p = 0 THEN <<s>>
       ELSE <<SubSeq(s, 1, p - 1)>> \o SplitOn(SubSeq(s, p + 1, Len(s)), k)

\* content.split('\n')
SplitLines(c) == SplitOn(c, "nl")

\* line.split('%')[0] if '%' in line else line
StripComment(line) == SplitOn(line, "pct")[1]

RECURSIVE LStrip(_)
\* s.lstrip(): leading blanks removed
LStrip(s) == IF s # <<>> /\ Head(s).k = "sp" THEN LStrip(Tail(s)) ELSE s

RECURSIVE RStrip(_)
\* s.rstrip(): trailing blanks removed
RStrip(s) ==
    IF s # <<>> /\ s[Len(s)].k = "sp" THEN RStrip(SubSeq(s, 1, Len(s) - 1)) ELSE s

\* s.strip()
Strip(s) == RStrip(LStrip(s))

\* s.count(x) for a one-token x
CountKind(s, k) == Len(SelectSeq(s, LAMBDA t : t.k = k))

\* x in s for a one-token x
HasKind(s, k) == \E j \in 1..Len(s) : s[j].k = k

(***************************************************************************)
(* IssueDetector.check_latex_syntax                                        *)
(***************************************************************************)
\* re.finditer(r'\\begin\{(\w+)\}', stripped): the names, in order
BeginMatches(stripped) ==
    LET hits == SelectSeq(stripped, LAMBDA t : t.k = "begin")
    IN [j \in 1..Len(hits) |-> hits[j].name]

\* re.finditer(r'\\end\{(\w+)\}', stripped): the names, in order
EndMatches(stripped) ==
    LET hits == SelectSeq(stripped, LAMBDA t : t.k = "end")
    IN [j \in 1..Len(hits) |-> hits[j].name]

\* a diagnostic of check_latex_syntax: 'line' and the data its description prints
Diag(kind, line, env_name, expected, opened) ==
    [kind |-> kind, line |-> line, env |-> env_name, expected |-> expected,
     opened |-> opened]

\* env_stack.append((match.group(1), i))
SynPush(st, name, i) ==
    [st EXCEPT !.env_stack = Append(@, [name |-> name, line |-> i])]

\* the mismatch diagnostic, variant: names the outermost open environment
MismatchIssueBottom(env_stack, env_name, i) ==
    Diag("mismatch", i, env_name, env_stack[1].name, env_stack[1].line)

\* the mismatch diagnostic: expected env_stack[-1][0], opened at env_stack[-1][1]
MismatchIssue(env_stack, env_name, i) ==
    Diag("mismatch", i, env_name,
         env_stack[Len(env_stack)].name, env_stack[Len(env_stack)].line)

\* the orphan-close diagnostic
OrphanIssue(env_name, i) == Diag("orphan", i, env_name, "", 0)

\* variant of the loop body: a mismatched \end pops the stack as well
SynClosePopsMismatch(st, env_name, i) ==
    IF st.env_stack # <<>> /\ st.env_stack[Len(st.env_stack)].name = env_name
    THEN [st EXCEPT !.env_stack = SubSeq(@, 1, Len(@) - 1)]
    ELSE IF st.env_stack # <<>>
    THEN [st EXCEPT !.issues = Append(@, MismatchIssue(st.env_stack, env_name, i)),
                    !.env_stack = SubSeq(@, 1, Len(@) - 1)]
    ELSE [st EXCEPT !.issues = Append(@, OrphanIssue(env_name, i))]

\* the body of the loop over the \end matches
SynClose(st, env_name, i) ==
    IF st.env_stack # <<>> /\ st.env_stack[Len(st.env_stack)].name = env_name
    THEN [st EXCEPT !.env_stack = SubSeq(@, 1, Len(@) - 1)]
    ELSE IF st.env_stack # <<>>
    THEN [st EXCEPT !.issues = Append(@, MismatchIssue(st.env_stack, env_name, i))]
    ELSE [st EXCEPT !.issues = Append(@, OrphanIssue(env_name, i))]

\* variant of the final loop: the stack is read from its top
UnclosedIssuesInnermostFirst(env_stack) ==
    [j \in 1..Len(env_stack) |->
        Diag("unclosed", env_stack[Len(env_stack) + 1 - j].line,
             env_stack[Len(env_stack) + 1 - j].name, "", 0)]

\* the final loop: one diagnostic per entry left on the stack, in stack order
UnclosedIssues(env_stack) ==
    [j \in 1..Len(env_stack) |->
        Diag("unclosed", env_stack[j].line, env_stack[j].name, "", 0)]

\* the state of the scan before the first line
SynStart == [env_stack |-> <<>>, issues |-> <<>>]

RECURSIVE SynPushAll(_, _, _)
SynPushAll(st, names, i) ==
    IF names = <<>> THEN st ELSE SynPushAll(SynPush(st, Head(names), i), Tail(names), i)

RECURSIVE SynCloseAll(_, _, _)
SynCloseAll(st, names, i) ==
    IF names = <<>> THEN st ELSE SynCloseAll(SynClose(st, Head(names), i), Tail(names), i)

\* one iteration of the loop over the lines
SynLine(st, line, i) ==
    LET stripped == StripComment(line)
    IN SynCloseAll(SynPushAll(st, BeginMatches(stripped), i), EndMatches(stripped), i)

RECURSIVE SynLines(_, _, _)
SynLines(st, lines, i) ==
    IF i > Len(lines) THEN st ELSE SynLines(SynLine(st, lines[i], i), lines, i + 1)

\* check_latex_syntax(content): the list of diagnostics returned
CheckLatexSyntax(c) ==
    LET st == SynLines(SynStart, SplitLines(c), 1)
    IN st.issues \o UnclosedIssues(st.env_stack)

(***************************************************************************)
(* check_latex_syntax, one regular-expression match per step.              *)
(***************************************************************************)
SynLinesOf == SplitLines(content)
SynStripped == StripComment(SynLinesOf[syn.i])
SynInLoop == syn.pc = "scan" /\ syn.i <= Len(SynLinesOf)
SynState == [env_stack |-> syn.env_stack, issues |-> syn.issues]
SynNextEnd == EndMatches(SynStripped)[syn.ne + 1]

\* the frame after one match: st is the scan state it leaves
SynAfter(st, nb, ne) ==
    [syn EXCEPT !.env_stack = st.env_stack, !.issues = st.issues, !.nb = nb, !.ne = ne]

\* for match in re.finditer(r'\\begin...'): env_stack.append(...)
LatexBegin ==
    /\ SynInLoop
    /\ syn.nb < Len(BeginMatches(SynStripped))
    /\ syn' = SynAfter(SynPush(SynState, BeginMatches(SynStripped)[syn.nb + 1], syn.i),
                       syn.nb + 1, syn.ne)
    /\ UNCHANGED synOthers

SynAtEnd ==
    /\ SynInLoop
    /\ syn.nb = Len(BeginMatches(SynStripped))
    /\ syn.ne < Len(EndMatches(SynStripped))

\* \end{env} naming the top of the stack: pop
LatexEndPop ==
    /\ SynAtEnd
    /\ syn.env_stack # <<>>
    /\ syn.env_stack[Len(syn.env_stack)].name = SynNextEnd
    /\ syn' = SynAfter(SynClose(SynState, SynNextEnd, syn.i), syn.nb, syn.ne + 1)
    /\ UNCHANGED synOthers

\* \end{env} naming something else than the top of a non-empty stack
LatexEndMismatch ==
    /\ SynAtEnd
    /\ syn.env_stack # <<>>
    /\ syn.env_stack[Len(syn.env_stack)].name # SynNextEnd
    /\ syn' = SynAfter(SynClose(SynState, SynNextEnd, syn.i), syn.nb, syn.ne + 1)
    /\ UNCHANGED synOthers

\* \end{env} on an empty stack
LatexEndOrphan ==
    /\ SynAtEnd
    /\ syn.env_stack = <<>>
    /\ syn' = SynAfter(SynClose(SynState, SynNextEnd, syn.i), syn.nb, syn.ne + 1)
    /\ UNCHANGED synOthers

\* the next iteration of for i, line in enumerate(lines, 1)
LatexNextLine ==
    /\ SynInLoop
    /\ syn.nb = Len(BeginMatches(SynStripped))
    /\ syn.ne = Len(EndMatches(SynStripped))
    /\ syn' = [syn EXCEPT !.i = @ + 1, !.nb = 0, !.ne = 0]
    /\ UNCHANGED synOthers

\* after the loop: report the unclosed environments and return issues
LatexReturn ==
    /\ syn.pc = "scan"
    /\ syn.i > Len(SynLinesOf)
    /\ syn' = [syn EXCEPT !.pc = "done",
                          !.issues = @ \o UnclosedIssues(syn.env_stack)]
    /\ UNCHANGED synOthers

(***************************************************************************)
(* Specification of check_latex_syntax over all bounded documents.         *)
(***************************************************************************)
LatexAlphabet ==
    {Begin("frame"), Begin("itemize"), End("frame"), End("itemize"), NL, PCT}

LatexDocs == UNION {[1..n -> LatexAlphabet] : n \in 0..MaxLatexTokens}

InitLatex ==
    /\ content \in LatexDocs
    /\ syn = [SynIdle EXCEPT !.pc = "scan", !.i = 1]
    /\ eqo = EqIdle
    /\ env = EnvIdle
    /\ scorer = ScorerIdle
    /\ mainf = MainIdle
    /\ AtRest({"cit", "hbx"})

NextLatex ==
    \/ LatexBegin
    \/ LatexEndPop
    \/ LatexEndMismatch
    \/ LatexEndOrphan
    \/ LatexNextLine
    \/ LatexReturn

SpecLatex == InitLatex /\ [][NextLatex]_vars

\* documents that also hold starred environment keywords
StarAlphabet ==
    {BeginStar("frame"), EndStar("frame"), Begin("itemize"), End("itemize"),
     End("frame"), NL}

StarDocs == UNION {[1..n -> StarAlphabet] : n \in 0..MaxStarTokens}

InitLatexStar ==
    /\ content \in StarDocs
    /\ syn = [SynIdle EXCEPT !.pc = "scan", !.i = 1]
    /\ eqo = EqIdle
    /\ env = EnvIdle
    /\ scorer = ScorerIdle
    /\ mainf = MainIdle
    /\ AtRest({"cit", "hbx"})

SpecLatexStar == InitLatexStar /\ [][NextLatex]_vars

\* the stepped scan returns what the function returns
LatexStepsAgree == syn.pc = "done" => syn.issues = CheckLatexSyntax(content)

(***************************************************************************)
(* Claims about check_latex_syntax.                                        *)
(***************************************************************************)
RECURSIVE OccOfLines(_, _)
\* the \begin and \end occurrences of the document outside comments, in
\* text order, each with the line it stands on
OccOfLines(lines, i) ==
    IF i > Len(lines) THEN <<>>
    ELSE LET hits == SelectSeq(StripComment(lines[i]),
                               LAMBDA t : t.k \in {"begin", "end"})
         IN [j \in 1..Len(hits) |-> [tok |-> hits[j], line |-> i]]
            \o OccOfLines(lines, i + 1)

EnvOccurrences == OccOfLines(SplitLines(content), 1)

RECURSIVE NestedFrom(_, _)
\* occ read left to right against the stack of open names: every \end names
\* the most recently opened environment and nothing stays open
NestedFrom(occ, open) ==
    IF occ = <<>> THEN open = <<>>
    ELSE IF Head(occ).tok.k = "begin"
         THEN NestedFrom(Tail(occ), Append(open, Head(occ).tok.name))
         ELSE /\ open # <<>>
              /\ open[Len(open)] = Head(occ).tok.name
              /\ NestedFrom(Tail(occ), SubSeq(open, 1, Len(open) - 1))

WellNested == NestedFrom(EnvOccurrences, <<>>)

\* C7: a document whose \begin/\end occurrences form correctly nested pairs
\* with no extras gets no diagnostic from check_latex_syntax.
C7_WellNestedNoDiagnostics ==
    (syn.pc = "done" /\ WellNested) => syn.issues = <<>>

\* the occurrences are: begin x, begin y, end x, end y, with x # y
ReversedCloses ==
    /\ Len(EnvOccurrences) = 4
    /\ EnvOccurrences[1].tok.k = "begin"
    /\ EnvOccurrences[2].tok.k = "begin"
    /\ EnvOccurrences[3].tok = End(EnvOccurrences[1].tok.name)
    /\ EnvOccurrences[4].tok = End(EnvOccurrences[2].tok.name)
    /\ EnvOccurrences[1].tok.name # EnvOccurrences[2].tok.name

Mismatches(issues) == {j \in 1..Len(issues) : issues[j].kind = "mismatch"}

\* C8: with the closes of two pairs reversed (begin A, begin B, end A, end B)
\* exactly one mismatch diagnostic is returned; it is for \end{A}, names B as
\* the expected environment and gives the line on which B was opened.
C8_ReversedClosesOneMismatch ==
    (syn.pc = "done" /\ ReversedCloses) =>
        /\ Cardinality(Mismatches(syn.issues)) = 1
        /\ \A j \in Mismatches(syn.issues) :
              /\ syn.issues[j].env = EnvOccurrences[1].tok.name
              /\ syn.issues[j].expected = EnvOccurrences[2].tok.name
              /\ syn.issues[j].opened = EnvOccurrences[2].line
              /\ syn.issues[j].line = EnvOccurrences[3].line

\* the reversed closes have been scanned, B opened on a later line than A
C8_Witness ==
    /\ syn.pc = "done"
    /\ ReversedCloses
    /\ EnvOccurrences[2].line > EnvOccurrences[1].line
    /\ Cardinality(Mismatches(syn.issues)) = 1

\* the diagnostics the step has added
AddedIssues == SubSeq(syn'.issues, Len(syn.issues) + 1, Len(syn'.issues))

\* C20: an \end whose name differs from the top of a non-empty stack adds
\* one mismatch diagnostic and leaves the stack as it is; an \end on an
\* empty stack adds one orphan-close diagnostic and leaves the stack empty.
C20_BadEndKeepsStack ==
    [][SynAtEnd =>
         /\ (syn.env_stack # <<>> /\ syn.env_stack[Len(syn.env_stack)].name # SynNextEnd) =>
               /\ syn'.env_stack = syn.env_stack
               /\ Len(AddedIssues) = 1
               /\ AddedIssues[1].kind = "mismatch"
               /\ SubSeq(syn'.issues, 1, Len(syn.issues)) = syn.issues
         /\ syn.env_stack = <<>> =>
               /\ syn'.env_stack = <<>>
               /\ Len(AddedIssues) = 1
               /\ AddedIssues[1].kind = "orphan"
               /\ SubSeq(syn'.issues, 1, Len(syn.issues)) = syn.issues]_vars

\* a scan has met a mismatched \end, then the \end that closes the
\* environment left on the stack, then an \end on the empty stack
C20_Witness ==
    /\ syn.pc = "done"
    /\ Len(syn.issues) = 2
    /\ syn.issues[1].kind = "mismatch"
    /\ syn.issues[2].kind = "orphan"

\* the diagnostics of the returned list that were there before the final loop
BeforeFinalLoop == SubSeq(syn.issues, 1, Len(syn.issues) - Len(syn.env_stack))

\* the diagnostics that the final loop has added
FromFinalLoop ==
    SubSeq(syn.issues, Len(syn.issues) - Len(syn.env_stack) + 1, Len(syn.issues))

\* C21: at the end of the scan there is exactly one unclosed diagnostic per
\* entry left on the stack, outermost first, each with the name and the line
\* of its \begin, and they come after all mismatch and orphan diagnostics.
C21_UnclosedLastInOpeningOrder ==
    syn.pc = "done" =>
        /\ Len(syn.issues) >= Len(syn.env_stack)
        /\ \A j \in 1..Len(BeforeFinalLoop) :
              BeforeFinalLoop[j].kind \in {"mismatch", "orphan"}
        /\ \A j \in 1..Len(syn.env_stack) :
              /\ FromFinalLoop[j].kind = "unclosed"
              /\ FromFinalLoop[j].env = syn.env_stack[j].name
              /\ FromFinalLoop[j].line = syn.env_stack[j].line
        /\ \A j, n \in 1..Len(syn.env_stack) :
              j < n => FromFinalLoop[j].line <= FromFinalLoop[n].line

\* a scan that met a mismatched \end has returned, two environments opened
\* on different lines being still open
C21_Witness ==
    /\ syn.pc = "done"
    /\ Len(syn.env_stack) = 2
    /\ syn.env_stack[1].line < syn.env_stack[2].line
    /\ Len(syn.issues) = 3
    /\ syn.issues[1].kind = "mismatch"
    /\ syn.issues[3].kind = "unclosed"

\* the number of diagnostics of the given kind in the list
KindCount(issues, kind) == Len(SelectSeq(issues, LAMBDA d : d.kind = kind))

\* the number of \begin or \end occurrences outside comments
OccCount(k) == Len(SelectSeq(EnvOccurrences, LAMBDA o : o.tok.k = k))

\* the \end occurrences that popped the stack without a diagnostic: every
\* \end either pops, or adds one mismatch or one orphan diagnostic
SilentPops ==
    OccCount("end") - KindCount(syn.issues, "mismatch") - KindCount(syn.issues, "orphan")

\* at the end of the scan every \begin has been popped or is reported unclosed
C26_BeginsArePopsPlusUnclosed ==
    syn.pc = "done" =>
        OccCount("begin") = SilentPops + KindCount(syn.issues, "unclosed")

\* C26: check_latex_syntax returns no diagnostic only if the \begin and \end
\* occurrences are properly nested (every \end names the most recently opened
\* environment that is still open, and none stays open); and the number of
\* \begin occurrences is the number of silent pops plus the number of
\* unclosed diagnostics.
C26_NoDiagnosticsOnlyIfWellNested ==
    syn.pc = "done" =>
        /\ (syn.issues = <<>> => WellNested)
        /\ OccCount("begin") = SilentPops + KindCount(syn.issues, "unclosed")

\* C23: a starred \begin is pushed like an unstarred one: in a document
\* without any \end every \begin, starred or not, is reported unclosed, and
\* in a document without any \begin every \end, starred or not, is reported
\* as an orphan.
C23_StarredKeywordsAreTracked ==
    syn.pc = "done" =>
        /\ (~HasKind(content, "end") /\ ~HasKind(content, "end*")) =>
              KindCount(syn.issues, "unclosed")
                = CountKind(content, "begin") + CountKind(content, "begin*")
        /\ (~HasKind(content, "begin") /\ ~HasKind(content, "begin*")) =>
              KindCount(syn.issues, "orphan")
                = CountKind(content, "end") + CountKind(content, "end*")

(***************************************************************************)
(* IssueDetector.check_equation_overflow                                   *)
(***************************************************************************)
\* the column threshold of the overflow checks
LineLimit == 120

\* the names (equation|align|gather|multline|eqnarray)
MathEnvs == {"equation", "align", "gather", "multline", "eqnarray"}

\* re.match(r'\\begin\{(equation|...)\*?\}', stripped): at the start only
MatchesEnvBegin(stripped) ==
    /\ stripped # <<>>
    /\ Head(stripped).k \in {"begin", "begin*"}
    /\ Head(stripped).name \in MathEnvs

\* re.match(r'\\end\{(equation|...)\*?\}', stripped): at the start only
MatchesEnvEnd(stripped) ==
    /\ stripped # <<>>
    /\ Head(stripped).k \in {"end", "end*"}
    /\ Head(stripped).name \in MathEnvs

\* variant of the single-line test: the content between the fences untrimmed
InnerOverflowsUntrimmed(stripped) ==
    SumWidths(SplitOn(stripped, "fence")[2]) > LineLimit

\* inner = stripped.split('$$')[1]; len(inner.strip()) > 120
InnerOverflows(stripped) ==
    SumWidths(Strip(SplitOn(stripped, "fence")[2])) > LineLimit

\* code_part = line.split('%')[0] if '%' in line else line;
\* len(code_part.strip()) > 120
CodePartOverflows(line) == SumWidths(Strip(StripComment(line))) > LineLimit

\* variant of the closing fence: the delimiter kind is kept
FenceClosedKeepsDelim(st) == [st EXCEPT !.in_math = FALSE]

\* a $$ line reached inside math: in_math = False, math_delim = None
FenceClosed(st) == [st EXCEPT !.in_math = FALSE, !.math_delim = "None"]

\* which branch of the loop body a line takes in scan state st
EqBranch(st, line) ==
    LET stripped == Strip(line)
    IN IF HasKind(stripped, "fence") /\ st.math_delim # "env"
       THEN IF ~st.in_math
            THEN IF CountKind(stripped, "fence") >= 2 THEN "fence_single" ELSE "fence_open"
            ELSE "fence_close"
       ELSE IF MatchesEnvBegin(stripped) /\ ~st.in_math THEN "env_begin"
       ELSE IF MatchesEnvEnd(stripped) THEN "env_end"
       ELSE IF st.in_math THEN "measure"
       ELSE "outside"

\* one iteration of the loop over the lines: the scan state after line i
EqLine(st, line, i) ==
    LET stripped == Strip(line)
        b == EqBranch(st, line)
    IN CASE b = "fence_open" ->
              [st EXCEPT !.in_math = TRUE, !.math_start = i, !.math_delim = "$$"]
         [] b = "fence_single" ->
              [st EXCEPT !.in_math = FALSE, !.math_start = i, !.math_delim = "None",
                         !.overflows = IF InnerOverflows(stripped) THEN Append(@, i) ELSE @]
         [] b = "fence_close" -> FenceClosed(st)
         [] b = "env_begin" ->
              [st EXCEPT !.in_math = TRUE, !.math_start = i, !.math_delim = "env"]
         [] b = "env_end" ->
              [st EXCEPT !.in_math = FALSE, !.math_delim = "None"]
         [] b = "measure" ->
              [st EXCEPT !.overflows = IF CodePartOverflows(line) THEN Append(@, i) ELSE @]
         [] OTHER -> st

\* the state of the scan before the first line
EqStart == [in_math |-> FALSE, math_start |-> 0, math_delim |-> "None", overflows |-> <<>>]

RECURSIVE EqLines(_, _, _)
EqLines(st, lines, i) ==
    IF i > Len(lines) THEN st ELSE EqLines(EqLine(st, lines[i], i), lines, i + 1)

\* check_equation_overflow(content): the list of line numbers returned
CheckEquationOverflow(c) == EqLines(EqStart, SplitLines(c), 1).overflows

(***************************************************************************)
(* check_equation_overflow, one line per step.                             *)
(***************************************************************************)
EqLinesOf == SplitLines(content)
EqCurLine == EqLinesOf[eqo.i]
EqInLoop == eqo.pc = "scan" /\ eqo.i <= Len(EqLinesOf)
EqState == [in_math |-> eqo.in_math, math_start |-> eqo.math_start,
            math_delim |-> eqo.math_delim, overflows |-> eqo.overflows]

\* the frame after the loop body has run on line eqo.i
EqAfterLine ==
    LET st == EqLine(EqState, EqCurLine, eqo.i)
    IN [eqo EXCEPT !.i = @ + 1, !.in_math = st.in_math,
                   !.math_start = st.math_start,
                   !.math_delim = st.math_delim,
                   !.overflows = st.overflows]

\* a lone $$ outside math: the region opens
EqFenceOpen ==
    /\ EqInLoop
    /\ EqBranch(EqState, EqCurLine) = "fence_open"
    /\ eqo' = EqAfterLine
    /\ UNCHANGED eqoOthers

\* two $$ on one line outside math: a single-line block
EqFenceSingle ==
    /\ EqInLoop
    /\ EqBranch(EqState, EqCurLine) = "fence_single"
    /\ eqo' = EqAfterLine
    /\ UNCHANGED eqoOthers

\* a $$ inside a region not opened by an environment: the region closes
EqFenceClose ==
    /\ EqInLoop
    /\ EqBranch(EqState, EqCurLine) = "fence_close"
    /\ eqo' = EqAfterLine
    /\ UNCHANGED eqoOthers

\* \begin{equation|...} outside math
EqEnvBegin ==
    /\ EqInLoop
    /\ EqBranch(EqState, EqCurLine) = "env_begin"
    /\ eqo' = EqAfterLine
    /\ UNCHANGED eqoOthers

\* \end{equation|...}
EqEnvEnd ==
    /\ EqInLoop
    /\ EqBranch(EqState, EqCurLine) = "env_end"
    /\ eqo' = EqAfterLine
    /\ UNCHANGED eqoOthers

\* any other line inside math: its length is measured
EqMeasure ==
    /\ EqInLoop
    /\ EqBranch(EqState, EqCurLine) = "measure"
    /\ eqo' = EqAfterLine
    /\ UNCHANGED eqoOthers

\* any other line outside math
EqOutside ==
    /\ EqInLoop
    /\ EqBranch(EqState, EqCurLine) = "outside"
    /\ eqo' = EqAfterLine
    /\ UNCHANGED eqoOthers

\* return overflows
EqReturn ==
    /\ eqo.pc = "scan"
    /\ eqo.i > Len(EqLinesOf)
    /\ eqo' = [eqo EXCEPT !.pc = "done"]
    /\ UNCHANGED eqoOthers

(***************************************************************************)
(* Specification of check_equation_overflow over all bounded documents.    *)
(***************************************************************************)
EqAlphabet ==
    {FENCE, Begin("equation"), End("equation"), PCT, SP, NL,
     Txt(LineLimit), Txt(LineLimit + 1)}

EqDocs == UNION {[1..n -> EqAlphabet] : n \in 0..MaxEqTokens}

InitEq ==
    /\ content \in EqDocs
    /\ syn = SynIdle
    /\ eqo = [EqIdle EXCEPT !.pc = "scan", !.i = 1]
    /\ AtRest({"cit", "hbx"})
    /\ env = EnvIdle
    /\ scorer = ScorerIdle
    /\ mainf = MainIdle

NextEq ==
    \/ EqFenceOpen
    \/ EqFenceSingle
    \/ EqFenceClose
    \/ EqEnvBegin
    \/ EqEnvEnd
    \/ EqMeasure
    \/ EqOutside
    \/ EqReturn

SpecEq == InitEq /\ [][NextEq]_vars

\* the stepped scan returns what the function returns
EqStepsAgree == eqo.pc = "done" => eqo.overflows = CheckEquationOverflow(content)

(***************************************************************************)
(* Claims about check_equation_overflow.                                   *)
(***************************************************************************)
\* the set of elements of a sequence
Range(q) == {q[j] : j \in 1..Len(q)}

\* C9: the two delimiter families never cancel each other: a region opened by
\* a fence stays open across an environment-close line, and a region opened
\* by an environment begin stays open across a line containing a fence.
C9_FamiliesNeverCancel ==
    [][EqInLoop =>
         /\ (/\ eqo.math_delim = "$$"
             /\ MatchesEnvEnd(Strip(EqCurLine))
             /\ ~HasKind(EqCurLine, "fence"))
            => (eqo'.in_math /\ eqo'.math_delim = "$$")
         /\ (/\ eqo.math_delim = "env"
             /\ HasKind(EqCurLine, "fence")
             /\ ~MatchesEnvEnd(Strip(EqCurLine)))
            => (eqo'.in_math /\ eqo'.math_delim = "env")]_vars

\* the text strictly between the first two fences of a line
BetweenFences(line) ==
    LET p1 == FirstOfKind(line, "fence", 1)
        p2 == FirstOfKind(line, "fence", p1 + 1)
    IN SubSeq(line, p1 + 1, p2 - 1)

\* C10: a line that holds the opening and the closing fence (the scanner is
\* outside math when it reaches the line) is flagged if and only if the
\* trimmed content between the two markers is longer than 120 characters:
\* 121 is flagged, 120 is not.
C10_SingleLineFenceBoundary ==
    [][(EqInLoop /\ ~eqo.in_math /\ CountKind(EqCurLine, "fence") >= 2) =>
         /\ (eqo.i \in Range(eqo'.overflows))
              <=> (SumWidths(Strip(BetweenFences(EqCurLine))) >= 121)
         /\ ~eqo'.in_math]_vars

\* a single-line block whose content is 121 characters once its blanks are
\* trimmed has just been flagged
C10_Witness ==
    /\ eqo.pc = "scan"
    /\ eqo.i > 1
    /\ ~eqo.in_math
    /\ eqo.math_start = eqo.i - 1
    /\ CountKind(EqLinesOf[eqo.i - 1], "fence") = 2
    /\ SumWidths(Strip(BetweenFences(EqLinesOf[eqo.i - 1]))) = 121
    /\ SumWidths(BetweenFences(EqLinesOf[eqo.i - 1])) > 121
    /\ (eqo.i - 1) \in Range(eqo.overflows)

\* the document holds no environment keyword
NoEnvKeywords == \A j \in 1..Len(content) :
    content[j].k \notin {"begin", "begin*", "end", "end*"}

RECURSIVE FenceLinesBefore(_)
\* the number of lines before line i that hold a fence
FenceLinesBefore(i) ==
    IF i <= 1 THEN 0
    ELSE FenceLinesBefore(i - 1)
         + (IF HasKind(EqLinesOf[i - 1], "fence") THEN 1 ELSE 0)

\* every fence line before line i holds exactly one fence
OneFencePerLineBefore(i) ==
    \A j \in 1..(i - 1) : CountKind(EqLinesOf[j], "fence") <= 1

\* without environment keywords and with one fence per fence line, the
\* scanner is inside math exactly after an odd number of fence lines
C24_OddFenceLinesInside ==
    (NoEnvKeywords /\ eqo.pc = "scan" /\ OneFencePerLineBefore(eqo.i)) =>
        (eqo.in_math <=> FenceLinesBefore(eqo.i) % 2 = 1)

\* a line of two fences reached outside math leaves the scanner outside
C24_TwoFencesOutsideStayOutside ==
    [][(NoEnvKeywords /\ EqInLoop /\ ~eqo.in_math
          /\ CountKind(EqCurLine, "fence") = 2) => ~eqo'.in_math]_vars

\* a line of two fences leaves the scanner as it was before the line
C24_TwoFencesKeepState ==
    [][(NoEnvKeywords /\ EqInLoop /\ CountKind(EqCurLine, "fence") = 2) =>
         eqo'.in_math = eqo.in_math]_vars

\* C24: the fences strictly toggle.  In a document without environment
\* keywords, after lines that hold one fence each the scanner is inside math
\* if and only if it has seen an odd number of them, and a line that holds
\* two fences leaves the scanner inside or outside as it was before the line.
C24_FencesStrictlyToggle ==
    []C24_OddFenceLinesInside /\ C24_TwoFencesKeepState

\* C28: after every line, in_math is true exactly when math_delim is '$$' or
\* 'env', and false exactly when math_delim is None.
C28_InMathIffDelimSet ==
    /\ eqo.math_delim \in {"None", "$$", "env"}
    /\ eqo.in_math <=> eqo.math_delim \in {"$$", "env"}
    /\ ~eqo.in_math <=> eqo.math_delim = "None"

\* a fence region has been opened and closed and an environment is open
C28_Witness ==
    /\ eqo.pc = "scan"
    /\ eqo.i = 4
    /\ EqLinesOf[1] = <<FENCE>>
    /\ EqLinesOf[2] = <<FENCE>>
    /\ eqo.in_math
    /\ eqo.math_delim = "env"

(***************************************************************************)
(* IssueDetector.check_broken_citations and check_quarto_citations         *)
(* A bibliography file is [exists, entries]: entries are the keys of its   *)
(* "@type{key," entry heads, in file order.                                *)
(***************************************************************************)
\* set(re.findall(r'@\w+\{([^,]+),', bib_content))
BibKeys(bib) == {bib.entries[j] : j \in 1..Len(bib.entries)}

\* the keys of every \cite...{...} of the text: split(','), strip, set
LatexCitedKeys(c) ==
    UNION {{c[j].keys[n] : n \in 1..Len(c[j].keys)} :
              j \in {x \in 1..Len(c) : c[x].k = "cite"}}

\* check_broken_citations(content, bib_file), as a set: the order of the
\* returned list is the iteration order of a Python set
CheckBrokenCitations(c, bib) ==
    IF ~bib.exists THEN LatexCitedKeys(c) ELSE LatexCitedKeys(c) \ BibKeys(bib)

RECURSIVE BracketKeysFrom(_, _, _, _)
\* pattern 1: every @key between a "[" and the next "]"; open says a "[" was
\* seen since the last "]", acc holds the keys seen since that "["
BracketKeysFrom(c, j, open, acc) ==
    IF j > Len(c) THEN {}
    ELSE CASE c[j].k = "lbr" -> BracketKeysFrom(c, j + 1, TRUE, acc)
           [] c[j].k = "rbr" ->
                (IF open THEN acc ELSE {}) \cup BracketKeysFrom(c, j + 1, FALSE, {})
           [] c[j].k \in {"at", "email"} ->
                BracketKeysFrom(c, j + 1, open, IF open THEN acc \cup {c[j].name} ELSE acc)
           [] OTHER -> BracketKeysFrom(c, j + 1, open, acc)

\* the cross-reference words that are not citations
ReservedRefs == {"fig", "tbl", "sec", "eq", "lst"}

\* pattern 2: @key not preceded by a word character or a period
StandaloneKeys(c) ==
    {c[j].name : j \in {x \in 1..Len(c) : c[x].k = "at" /\ c[x].name \notin ReservedRefs}}

\* cited_keys of check_quarto_citations
QuartoCitedKeys(c) == BracketKeysFrom(c, 1, FALSE, {}) \cup StandaloneKeys(c)

\* check_quarto_citations(content, bib_file), as a set
CheckQuartoCitations(c, bib) ==
    IF QuartoCitedKeys(c) = {} THEN {}
    ELSE IF ~bib.exists THEN QuartoCitedKeys(c)
    ELSE QuartoCitedKeys(c) \ BibKeys(bib)

\* the sequences that list the set S once each: the orders in which Python
\* may iterate a set of strings
Orders(S) == {q \in [1..Cardinality(S) -> S] : {q[j] : j \in 1..Len(q)} = S}

(***************************************************************************)
(* The citation checkers, one regular-expression match per step.  The      *)
(* bibliography file handed to them is env.bib_up.                         *)
(***************************************************************************)
\* the first match of bracket_pattern at or after position from: the
\* leftmost "[" whose next "]" has an at-sign before it; <<>> if none
RECURSIVE NextBracket(_, _)
NextBracket(c, from) ==
    LET a == FirstOfKind(c, "lbr", from)
        b == FirstOfKind(c, "rbr", a + 1)
    IN IF a = 0 \/ b = 0 THEN <<>>
       ELSE IF \E x \in (a + 1)..(b - 1) : c[x].k \in {"at", "email"}
       THEN <<a, b>>
       ELSE NextBracket(c, a + 1)

\* re.finditer(r'@([...]+)', inner): the keys between the brackets
InnerKeys(c, a, b) == {c[x].name : x \in {y \in (a + 1)..(b - 1) : c[y].k \in {"at", "email"}}}

CitScan(fn, pc) == cit.fn = fn /\ cit.pc = pc

\* for match in re.finditer(cite_pattern, content): cited_keys.update(...)
CiteMatch ==
    /\ CitScan("latex", "scan")
    /\ FirstOfKind(content, "cite", cit.j) # 0
    /\ LET p == FirstOfKind(content, "cite", cit.j)
       IN cit' = [cit EXCEPT
                    !.cited_keys = @ \cup {content[p].keys[n] : n \in 1..Len(content[p].keys)},
                    !.j = p + 1]
    /\ UNCHANGED citOthers

\* variant of the return without a bibliography: nothing is returned
CiteNoBibReturnsNothing ==
    /\ CitScan("latex", "scan")
    /\ FirstOfKind(content, "cite", cit.j) = 0
    /\ ~env.bib_up.exists
    /\ cit' = [cit EXCEPT !.pc = "done", !.result = <<>>]
    /\ UNCHANGED citOthers

\* if not bib_file.exists(): return list(cited_keys)
CiteNoBib ==
    /\ CitScan("latex", "scan")
    /\ FirstOfKind(content, "cite", cit.j) = 0
    /\ ~env.bib_up.exists
    /\ \E order \in Orders(cit.cited_keys) :
          cit' = [cit EXCEPT !.pc = "done", !.result = order]
    /\ UNCHANGED citOthers

\* broken = cited_keys - bib_keys; return list(broken)
CiteDiff ==
    /\ CitScan("latex", "scan")
    /\ FirstOfKind(content, "cite", cit.j) = 0
    /\ env.bib_up.exists
    /\ \E order \in Orders(cit.cited_keys \ BibKeys(env.bib_up)) :
          cit' = [cit EXCEPT !.pc = "done", !.result = order]
    /\ UNCHANGED citOthers

\* for match in re.finditer(bracket_pattern, content): add the inner keys
QuartoBracketMatch ==
    /\ CitScan("quarto", "scan")
    /\ NextBracket(content, cit.j) # <<>>
    /\ LET m == NextBracket(content, cit.j)
       IN cit' = [cit EXCEPT !.cited_keys = @ \cup InnerKeys(content, m[1], m[2]),
                             !.j = m[2] + 1]
    /\ UNCHANGED citOthers

\* the bracket loop is over: the loop over standalone_pattern starts
QuartoBracketsDone ==
    /\ CitScan("quarto", "scan")
    /\ NextBracket(content, cit.j) = <<>>
    /\ cit' = [cit EXCEPT !.pc = "standalone", !.j = 1]
    /\ UNCHANGED citOthers

\* a standalone match naming a reserved word: continue
QuartoStandaloneSkip ==
    /\ CitScan("quarto", "standalone")
    /\ FirstOfKind(content, "at", cit.j) # 0
    /\ content[FirstOfKind(content, "at", cit.j)].name \in ReservedRefs
    /\ cit' = [cit EXCEPT !.j = FirstOfKind(content, "at", cit.j) + 1]
    /\ UNCHANGED citOthers

\* any other standalone match: cited_keys.add(key)
QuartoStandaloneAdd ==
    /\ CitScan("quarto", "standalone")
    /\ FirstOfKind(content, "at", cit.j) # 0
    /\ content[FirstOfKind(content, "at", cit.j)].name \notin ReservedRefs
    /\ cit' = [cit EXCEPT
                 !.cited_keys = @ \cup {content[FirstOfKind(content, "at", cit.j)].name},
                 !.j = FirstOfKind(content, "at", cit.j) + 1]
    /\ UNCHANGED citOthers

QuartoMatchesDone == CitScan("quarto", "standalone") /\ FirstOfKind(content, "at", cit.j) = 0

\* if not cited_keys: return []
QuartoNoKeys ==
    /\ QuartoMatchesDone
    /\ cit.cited_keys = {}
    /\ cit' = [cit EXCEPT !.pc = "done", !.result = <<>>]
    /\ UNCHANGED citOthers

\* if not bib_file.exists(): return list(cited_keys)
QuartoNoBib ==
    /\ QuartoMatchesDone
    /\ cit.cited_keys # {}
    /\ ~env.bib_up.exists
    /\ \E order \in Orders(cit.cited_keys) :
          cit' = [cit EXCEPT !.pc = "done", !.result = order]
    /\ UNCHANGED citOthers

\* broken = cited_keys - bib_keys; return list(broken)
QuartoDiff ==
    /\ QuartoMatchesDone
    /\ cit.cited_keys # {}
    /\ env.bib_up.exists
    /\ \E order \in Orders(cit.cited_keys \ BibKeys(env.bib_up)) :
          cit' = [cit EXCEPT !.pc = "done", !.result = order]
    /\ UNCHANGED citOthers

(***************************************************************************)
(* Specification of the citation checkers over all bounded documents.      *)
(***************************************************************************)
CiteAlphabet ==
    {Cite(<<"smith2020">>), Cite(<<"smith2020", "jones2019">>), At("jones2019"),
     At("fig"), Email("example.com"), LBR, RBR}

CiteDocs == UNION {[1..n -> CiteAlphabet] : n \in 0..MaxCiteTokens}

CiteBibs == {[exists |-> FALSE, entries |-> <<>>],
             [exists |-> TRUE, entries |-> <<"smith2020">>],
             [exists |-> TRUE, entries |-> <<"smith2020", "jones2019", "example.com">>]}

InitCite ==
    /\ content \in CiteDocs
    /\ \E b \in CiteBibs : env = [EnvIdle EXCEPT !.bib_up = b]
    /\ \E fn \in {"latex", "quarto"} : cit = [CitIdle EXCEPT !.pc = "scan", !.fn = fn, !.j = 1]
    /\ hbx = HbxIdle
    /\ AtRest({"syn", "eqo", "scorer", "mainf"})

NextCite ==
    \/ CiteMatch
    \/ CiteNoBib
    \/ CiteDiff
    \/ QuartoBracketMatch
    \/ QuartoBracketsDone
    \/ QuartoStandaloneSkip
    \/ QuartoStandaloneAdd
    \/ QuartoNoKeys
    \/ QuartoNoBib
    \/ QuartoDiff

SpecCite == InitCite /\ [][NextCite]_vars

\* the stepped checkers return what the functions return
CiteStepsAgree ==
    cit.pc = "done" =>
        /\ Len(cit.result) = Cardinality({cit.result[j] : j \in 1..Len(cit.result)})
        /\ {cit.result[j] : j \in 1..Len(cit.result)} =
              IF cit.fn = "latex" THEN CheckBrokenCitations(content, env.bib_up)
              ELSE CheckQuartoCitations(content, env.bib_up)

(***************************************************************************)
(* The heuristic checks of the script classes.                             *)
(***************************************************************************)
\* re.search(r'["\'][/\\]|["\'][A-Za-z]:[/\\]', line) and
\* not re.search(r'http:|https:|file://|/tmp/', line)
IsHardcodedLine(line) ==
    /\ \E j \in 1..Len(line) : line[j].k \in {"abspath", "tmppath"}
    /\ ~\E j \in 1..Len(line) : line[j].k \in {"url", "tmppath"}

\* the line numbers for which pred holds, in order
LinesWhere(lines, pred(_)) ==
    LET hit == {j \in 1..Len(lines) : pred(lines[j])}
        RECURSIVE Up(_)
        Up(j) == IF j > Len(lines) THEN <<>>
                 ELSE (IF j \in hit THEN <<j>> ELSE <<>>) \o Up(j + 1)
    IN Up(1)

\* check_hardcoded_paths(content)
CheckHardcodedPaths(c) == LinesWhere(SplitLines(c), IsHardcodedLine)

\* re.match(r'from\s+\S+\s+import\s+\*', line.strip())
IsWildcardLine(line) == Strip(line) # <<>> /\ Head(Strip(line)).k = "wildimport"

\* check_wildcard_imports(content)
CheckWildcardImports(c) == LinesWhere(SplitLines(c), IsWildcardLine)

RECURSIVE LStripAll(_)
\* content.lstrip(): leading blanks and line breaks removed
LStripAll(c) == IF c # <<>> /\ Head(c).k \in {"sp", "nl"} THEN LStripAll(Tail(c)) ELSE c

\* check_missing_docstring(content)
CheckMissingDocstring(c) ==
    ~(LStripAll(c) # <<>> /\ Head(LStripAll(c)).k \in {"docq", "shebang"})

\* any(fn in content for fn in ['np.random', 'random.', ...])
PyHasRandom(c) == HasKind(c, "np.random") \/ HasKind(c, "np.random.seed")

\* any(s in content for s in ['random.seed', 'np.random.seed', ...])
PyHasSeed(c) == HasKind(c, "np.random.seed")

\* any(fn in content for fn in ['rnorm', 'runif', 'sample', ...])
RHasRandom(c) == HasKind(c, "rnorm")

\* 'set.seed' in content
RHasSeed(c) == HasKind(c, "set.seed")

(***************************************************************************)
(* IssueDetector.check_overfull_hbox_risk                                  *)
(***************************************************************************)
\* re.match(r'\s*\\(includegraphics|input|bibliography|usepackage)', stripped)
StartsWithDirective(stripped) ==
    LStrip(stripped) # <<>> /\ Head(LStrip(stripped)).k = "directive"

\* one iteration of the loop over the lines
HboxLine(st, line, i) ==
    LET stripped == StripComment(line)
        in_frame == IF \E j \in 1..Len(stripped) : stripped[j] = Begin("frame")
                    THEN TRUE
                    ELSE IF \E j \in 1..Len(stripped) : stripped[j] = End("frame")
                    THEN FALSE
                    ELSE st.in_frame
        flagged == /\ in_frame
                   /\ SumWidths(Strip(stripped)) > LineLimit
                   /\ ~StartsWithDirective(stripped)
    IN [in_frame |-> in_frame,
        issues |-> IF flagged THEN Append(st.issues, i) ELSE st.issues]

\* the state of the scan before the first line
HboxStart == [in_frame |-> FALSE, issues |-> <<>>]

RECURSIVE HboxLines(_, _, _)
HboxLines(st, lines, i) ==
    IF i > Len(lines) THEN st ELSE HboxLines(HboxLine(st, lines[i], i), lines, i + 1)

\* check_overfull_hbox_risk(content): the list of line numbers returned
CheckOverfullHboxRisk(c) == HboxLines(HboxStart, SplitLines(c), 1).issues

(***************************************************************************)
(* check_overfull_hbox_risk, one line per step.                            *)
(***************************************************************************)
HbxLinesOf == SplitLines(content)
HbxInLoop == hbx.pc = "scan" /\ hbx.i <= Len(HbxLinesOf)
HbxState == [in_frame |-> hbx.in_frame, issues |-> hbx.issues]

\* the frame after the iteration for the current line
HbxAfterLine ==
    LET st == HboxLine(HbxState, HbxLinesOf[hbx.i], hbx.i)
    IN [hbx EXCEPT !.in_frame = st.in_frame, !.issues = st.issues, !.i = @ + 1]

\* if in_frame and len(stripped.strip()) > 120, for the current line
HbxLong ==
    /\ HboxLine(HbxState, HbxLinesOf[hbx.i], hbx.i).in_frame
    /\ SumWidths(Strip(StripComment(HbxLinesOf[hbx.i]))) > LineLimit

\* a long line in a frame: issues.append(i)
HboxAppend ==
    /\ HbxInLoop
    /\ HbxLong
    /\ ~StartsWithDirective(StripComment(HbxLinesOf[hbx.i]))
    /\ hbx' = HbxAfterLine
    /\ UNCHANGED hbxOthers

\* a long line in a frame that begins with a path-bearing command: continue
HboxSkip ==
    /\ HbxInLoop
    /\ HbxLong
    /\ StartsWithDirective(StripComment(HbxLinesOf[hbx.i]))
    /\ hbx' = HbxAfterLine
    /\ UNCHANGED hbxOthers

\* a line outside the frames, or of at most 120 characters
HboxPass ==
    /\ HbxInLoop
    /\ ~HbxLong
    /\ hbx' = HbxAfterLine
    /\ UNCHANGED hbxOthers

\* return issues
HboxReturn ==
    /\ hbx.pc = "scan"
    /\ hbx.i > Len(HbxLinesOf)
    /\ hbx' = [hbx EXCEPT !.pc = "done"]
    /\ UNCHANGED hbxOthers

(***************************************************************************)
(* Specification of check_overfull_hbox_risk over all bounded documents.   *)
(***************************************************************************)
HboxAlphabet ==
    {Begin("frame"), End("frame"), NL, PCT, SP, Directive,
     Txt(LineLimit), Txt(LineLimit + 1)}

HboxDocs == UNION {[1..n -> HboxAlphabet] : n \in 0..MaxHboxTokens}

InitHbox ==
    /\ content \in HboxDocs
    /\ hbx = [HbxIdle EXCEPT !.pc = "scan", !.i = 1]
    /\ env = EnvIdle
    /\ cit = CitIdle
    /\ AtRest({"syn", "eqo", "scorer", "mainf"})

NextHbox ==
    \/ HboxAppend
    \/ HboxSkip
    \/ HboxPass
    \/ HboxReturn

SpecHbox == InitHbox /\ [][NextHbox]_vars

\* the stepped scan returns what the function returns
HboxStepsAgree == hbx.pc = "done" => hbx.issues = CheckOverfullHboxRisk(content)

(***************************************************************************)
(* Claims about check_overfull_hbox_risk.                                  *)
(***************************************************************************)
RECURSIVE FrameOpenAfter(_, _)
\* whether a frame is open after the tokens q, read left to right, when
\* open tells whether one was open before them
FrameOpenAfter(q, open) ==
    IF q = <<>> THEN open
    ELSE FrameOpenAfter(Tail(q),
                        IF Head(q) = Begin("frame") THEN TRUE
                        ELSE IF Head(q) = End("frame") THEN FALSE
                        ELSE open)

RECURSIVE FrameOpenAtEnd(_, _)
\* whether a frame is open at the end of line i (comments left out)
FrameOpenAtEnd(lines, i) ==
    IF i = 0 THEN FALSE
    ELSE FrameOpenAfter(StripComment(lines[i]), FrameOpenAtEnd(lines, i - 1))

\* line i lies inside a frame region: a frame opens on it, or one is open
\* at its end
InsideFrame(lines, i) ==
    \/ \E j \in 1..Len(StripComment(lines[i])) : StripComment(lines[i])[j] = Begin("frame")
    \/ FrameOpenAtEnd(lines, i)

\* the comment-free part of the line begins with an allow-listed directive
BeginsWithDirective(line) ==
    \E j \in 1..Len(StripComment(line)) :
        /\ StripComment(line)[j].k = "directive"
        /\ \A x \in 1..(j - 1) : StripComment(line)[x].k = "sp"

\* the comment-free part of the line holds the marker
HoldsMarker(line, marker) ==
    \E j \in 1..Len(StripComment(line)) : StripComment(line)[j] = marker

\* a line with the frame-close marker has been processed, and the scanner
\* is outside the frame region
C27_OutsideAfterFrameClose ==
    (hbx.pc = "scan" /\ hbx.i > 1 /\ HoldsMarker(HbxLinesOf[hbx.i - 1], End("frame")))
        => ~hbx.in_frame

\* no line is flagged that follows a line with the frame-close marker, no
\* line from there on holding the frame-open marker
C27_NoFlagAfterFrameClose ==
    \A i \in Range(hbx.issues) : \A j \in 1..(i - 1) :
        HoldsMarker(HbxLinesOf[j], End("frame")) =>
            \E m \in (j + 1)..i : HoldsMarker(HbxLinesOf[m], Begin("frame"))

\* C27: after a line that contains the frame-close marker the scanner is
\* outside the frame region, and no following line is flagged until a later
\* line contains the frame-open marker.
C27_FrameCloseLeavesFrame ==
    C27_OutsideAfterFrameClose /\ C27_NoFlagAfterFrameClose

\* C18: check_overfull_hbox_risk flags a line if and only if the line lies
\* inside a frame region, its comment-free, trimmed length exceeds 120 and
\* it does not begin with an allow-listed directive; in particular no line
\* outside a frame region is flagged.
C18_FlaggedIffLongInFrame ==
    hbx.pc = "done" =>
        \A i \in 1..Len(SplitLines(content)) :
            (i \in Range(hbx.issues)) <=>
                /\ InsideFrame(SplitLines(content), i)
                /\ SumWidths(Strip(StripComment(SplitLines(content)[i]))) > 120
                /\ ~BeginsWithDirective(SplitLines(content)[i])

(***************************************************************************)
(* QualityScorer: the rubric scorer.                                       *)
(***************************************************************************)
\* a row of a rubric: severity, kind of issue, points, auto_fail
Row(severity, kind, points, auto_fail) ==
    [severity |-> severity, kind |-> kind, points |-> points, auto_fail |-> auto_fail]

QUARTO_RUBRIC ==
    {Row("critical", "compilation_failure", 100, TRUE),
     Row("critical", "equation_overflow", 20, FALSE),
     Row("critical", "broken_citation", 15, FALSE),
     Row("critical", "typo_in_equation", 10, FALSE),
     Row("critical", "missing_plotly_chart", 10, FALSE),
     Row("major", "text_overflow", 5, FALSE),
     Row("major", "tikz_label_overlap", 5, FALSE),
     Row("major", "notation_inconsistency", 3, FALSE),
     Row("major", "missing_box_separation", 2, FALSE),
     Row("major", "color_contrast_low", 3, FALSE),
     Row("minor", "font_size_reduction", 1, FALSE),
     Row("minor", "missing_forward_ref", 1, FALSE),
     Row("minor", "missing_framing_sentence", 1, FALSE)}

R_SCRIPT_RUBRIC ==
    {Row("critical", "syntax_error", 100, TRUE),
     Row("critical", "hardcoded_path", 20, FALSE),
     Row("critical", "missing_library", 10, FALSE),
     Row("major", "missing_set_seed", 10, FALSE),
     Row("major", "missing_figure", 5, FALSE),
     Row("major", "missing_rds", 5, FALSE),
     Row("minor", "style_violation", 1, FALSE),
     Row("minor", "missing_roxygen", 1, FALSE)}

PYTHON_SCRIPT_RUBRIC ==
    {Row("critical", "syntax_error", 100, TRUE),
     Row("critical", "hardcoded_path", 20, FALSE),
     Row("critical", "missing_import", 10, FALSE),
     Row("major", "missing_seed", 10, FALSE),
     Row("major", "missing_figure", 5, FALSE),
     Row("major", "missing_persistence", 5, FALSE),
     Row("minor", "style_violation", 1, FALSE),
     Row("minor", "missing_docstring", 1, FALSE)}

BEAMER_RUBRIC ==
    {Row("critical", "compilation_failure", 100, TRUE),
     Row("critical", "undefined_citation", 15, FALSE),
     Row("critical", "overfull_hbox", 10, FALSE),
     Row("major", "text_overflow", 5, FALSE),
     Row("major", "notation_inconsistency", 3, FALSE),
     Row("minor", "font_size_reduction", 1, FALSE)}

\* the rubric of the class that main selects by the suffix of the file
RubricOf(suffix) ==
    CASE suffix = ".qmd" -> QUARTO_RUBRIC
      [] suffix = ".R" -> R_SCRIPT_RUBRIC
      [] suffix = ".py" -> PYTHON_SCRIPT_RUBRIC
      [] suffix = ".tex" -> BEAMER_RUBRIC
      [] OTHER -> {}

\* THRESHOLDS
ThresholdCommit == 80
ThresholdPr == 90
ThresholdExcellence == 95

\* an issue dict: 'type', the line or key its description prints, 'details'
\* (kept where the code computes it), 'points'
Issue(type, line, key, details, points) ==
    [type |-> type, line |-> line, key |-> key, details |-> details, points |-> points]

\* one pass of a detection loop still to run: the issue to append under
\* severity sev and the amount the loop body subtracts from self.score
Entry(sev, issue, deduct) == [sev |-> sev, issue |-> issue, deduct |-> deduct]

\* the order in which this process iterates the set S built from the document
\* under scan: any order the first time, and the same order every time the
\* process builds the set in the same way again (the order depends on the
\* string hashes, which the interpreter seeds once, at its start)
IterOrders(S) ==
    IF \E m \in hashseed : m.doc = content /\ m.env = env
    THEN {m.order : m \in {x \in hashseed : x.doc = content /\ x.env = env}}
    ELSE Orders(S)

\* the process has iterated the set of the document in the given order
Seeded(order) == hashseed \cup {[doc |-> content, env |-> env, order |-> order]}

\* variant of the diagnostic: one text whatever the cause
ProbeDetailsSame(probe) == "stderr"

\* error[:200] of the probe: stderr, or the text of the except branch
ProbeDetails(probe) ==
    CASE probe = "fail" -> "stderr"
      [] probe = "timeout" -> "timeout"
      [] probe = "not_installed" -> "not installed"
      [] OTHER -> ""

\* the auto-fail branch of a score_* method: auto_fail, one critical issue of
\* 100 points, score 0, then _generate_report
AutoFail(sc, type, details) ==
    [sc EXCEPT !.auto_fail = TRUE,
               !.issues.critical = Append(@, Issue(type, 0, "", details, 100)),
               !.score = 0,
               !.pc = "report"]

\* variant of the loop body: the score is left alone
AppendOnly(sc, e) == [sc EXCEPT !.issues[e.sev] = Append(@, e.issue)]

\* variant of the loop body: the points are added to the score
AppendAndCredit(sc, e) ==
    [sc EXCEPT !.issues[e.sev] = Append(@, e.issue), !.score = @ + e.deduct]

\* the body of a detection loop: append the issue, subtract from the score
AppendAndDeduct(sc, e) ==
    [sc EXCEPT !.issues[e.sev] = Append(@, e.issue), !.score = @ - e.deduct]

\* variant of the clamp: the score is left as accumulated
NoClamp(score) == score

\* max(0, self.score)
Clamp(score) == IF score < 0 THEN 0 ELSE score

\* variant of the classification: a score of 0 fails
StatusOfZeroFails(sc) ==
    IF sc.auto_fail \/ sc.score = 0 THEN "FAIL"
    ELSE IF sc.score >= ThresholdExcellence THEN "EXCELLENCE"
    ELSE IF sc.score >= ThresholdPr THEN "PR_READY"
    ELSE IF sc.score >= ThresholdCommit THEN "COMMIT_READY"
    ELSE "BLOCKED"

\* variant of the classification: strict comparisons
StatusOfStrict(sc) ==
    IF sc.auto_fail THEN "FAIL"
    ELSE IF sc.score > ThresholdExcellence THEN "EXCELLENCE"
    ELSE IF sc.score > ThresholdPr THEN "PR_READY"
    ELSE IF sc.score > ThresholdCommit THEN "COMMIT_READY"
    ELSE "BLOCKED"

\* _generate_report: status
StatusOf(sc) ==
    IF sc.auto_fail THEN "FAIL"
    ELSE IF sc.score >= ThresholdExcellence THEN "EXCELLENCE"
    ELSE IF sc.score >= ThresholdPr THEN "PR_READY"
    ELSE IF sc.score >= ThresholdCommit THEN "COMMIT_READY"
    ELSE "BLOCKED"

\* _generate_report: threshold
ThresholdOf(sc) ==
    IF sc.auto_fail THEN "None (auto-fail)"
    ELSE IF sc.score >= ThresholdExcellence THEN "excellence"
    ELSE IF sc.score >= ThresholdPr THEN "pr"
    ELSE IF sc.score >= ThresholdCommit THEN "commit"
    ELSE "None (below commit)"

\* _generate_report(self)
GenerateReportOf(sc) ==
    [score |-> sc.score,
     status |-> StatusOf(sc),
     threshold |-> ThresholdOf(sc),
     auto_fail |-> sc.auto_fail,
     issues |-> sc.issues,
     counts |-> [critical |-> Len(sc.issues.critical),
                 major |-> Len(sc.issues.major),
                 minor |-> Len(sc.issues.minor),
                 total |-> Len(sc.issues.critical) + Len(sc.issues.major)
                           + Len(sc.issues.minor)]]

\* the score_* method has been entered for a file of the given suffix
Entered(suffix) == scorer.pc = "new" /\ env.suffix = suffix /\ env.readable

\* the previous detection loop is over
LoopDone(pc) == scorer.pc = pc /\ scorer.pending = <<>>

\* self.filepath.read_text(encoding='utf-8') raises: the exception leaves
\* the score_* method
ScoreRaise ==
    /\ scorer.pc = "new"
    /\ env.suffix \in {".qmd", ".R", ".py", ".tex"}
    /\ ~env.readable
    /\ scorer' = [scorer EXCEPT !.pc = "raised"]
    /\ UNCHANGED scorerOthers

\* one pass of the detection loop that is running
RecordIssue ==
    /\ scorer.pending # <<>>
    /\ scorer' = [AppendAndDeduct(scorer, Head(scorer.pending))
                    EXCEPT !.pending = Tail(scorer.pending)]
    /\ UNCHANGED scorerOthers

\* self.score = max(0, self.score), last statement before _generate_report
ClampScore ==
    /\ LoopDone("clamp")
    /\ scorer' = [scorer EXCEPT !.score = Clamp(@), !.pc = "report"]
    /\ UNCHANGED scorerOthers

\* return self._generate_report()
GenerateReport ==
    /\ scorer.pc = "report"
    /\ scorer' = [scorer EXCEPT !.report = GenerateReportOf(scorer), !.pc = "done"]
    /\ UNCHANGED scorerOthers

(***************************************************************************)
(* QualityScorer.score_quarto                                              *)
(***************************************************************************)
QuartoEqEntry(line) ==
    Entry("critical", Issue("equation_overflow", line, "", "", 20), 20)

QuartoCiteEntry(key) ==
    Entry("critical", Issue("broken_citation", 0, key, "", 15), 15)

\* expected_plotly = content.count('plotly::plot_ly')
ExpectedPlotly(c) == CountKind(c, "plotly")

\* the plotly check: at most one issue, of 10 points per missing chart
QuartoPlotlyEntries(c, html) ==
    IF html.exists /\ ExpectedPlotly(c) > 0 /\ html.widgets < ExpectedPlotly(c)
    THEN LET missing == ExpectedPlotly(c) - html.widgets
         IN <<Entry("critical",
                    Issue("missing_plotly_chart", 0, "", "", 10 * missing),
                    10 * missing)>>
    ELSE <<>>

\* variant of the merge: the at-sign citations are left out
QuartoAllBrokenLatexOnly(c, bib) == CheckBrokenCitations(c, bib)

\* all_broken = set(broken_citations) | set(quarto_broken)
QuartoAllBroken(c, bib) == CheckBrokenCitations(c, bib) \cup CheckQuartoCitations(c, bib)

\* variant of the compilation failure: no return, the checks go on
QuartoCompileFailGoesOn ==
    /\ Entered(".qmd")
    /\ env.probe # "ok"
    /\ scorer' = [AutoFail(scorer, "compilation_failure", ProbeDetails(env.probe))
                    EXCEPT !.pc = "q_eq",
                           !.pending = [j \in 1..Len(CheckEquationOverflow(content)) |->
                                           QuartoEqEntry(CheckEquationOverflow(content)[j])]]
    /\ UNCHANGED scorerOthers

\* check_quarto_compilation fails: auto-fail and return
QuartoCompileFail ==
    /\ Entered(".qmd")
    /\ env.probe # "ok"
    /\ scorer' = AutoFail(scorer, "compilation_failure", ProbeDetails(env.probe))
    /\ UNCHANGED scorerOthers

\* the file compiles: check_equation_overflow, loop over its lines
QuartoEquations ==
    /\ Entered(".qmd")
    /\ env.probe = "ok"
    /\ scorer' = [scorer EXCEPT
                    !.pc = "q_eq",
                    !.pending = [j \in 1..Len(CheckEquationOverflow(content)) |->
                                    QuartoEqEntry(CheckEquationOverflow(content)[j])]]
    /\ UNCHANGED scorerOthers

\* both citation checks, loop over the set all_broken
QuartoCitations ==
    /\ LoopDone("q_eq")
    /\ \E order \in IterOrders(QuartoAllBroken(content, env.bib_up)) :
          /\ scorer' = [scorer EXCEPT
                          !.pc = "q_cite",
                          !.pending = [j \in 1..Len(order) |-> QuartoCiteEntry(order[j])]]
          /\ hashseed' = Seeded(order)
    /\ UNCHANGED iterOthers

\* the plotly check, then the clamp
QuartoPlotly ==
    /\ LoopDone("q_cite")
    /\ scorer' = [scorer EXCEPT !.pc = "clamp",
                                !.pending = QuartoPlotlyEntries(content, env.html)]
    /\ UNCHANGED scorerOthers

(***************************************************************************)
(* QualityScorer.score_r_script                                            *)
(***************************************************************************)
HardcodedPathEntry(line) ==
    Entry("critical", Issue("hardcoded_path", line, "", "", 20), 20)

RSeedEntries(c) ==
    IF RHasRandom(c) /\ ~RHasSeed(c)
    THEN <<Entry("major", Issue("missing_set_seed", 0, "", "", 10), 10)>>
    ELSE <<>>

\* check_r_syntax fails: auto-fail and return
RSyntaxFail ==
    /\ Entered(".R")
    /\ env.probe # "ok"
    /\ scorer' = AutoFail(scorer, "syntax_error", ProbeDetails(env.probe))
    /\ UNCHANGED scorerOthers

\* the script parses: check_hardcoded_paths, loop over its lines
RPaths ==
    /\ Entered(".R")
    /\ env.probe = "ok"
    /\ scorer' = [scorer EXCEPT
                    !.pc = "r_paths",
                    !.pending = [j \in 1..Len(CheckHardcodedPaths(content)) |->
                                    HardcodedPathEntry(CheckHardcodedPaths(content)[j])]]
    /\ UNCHANGED scorerOthers

\* the set.seed check, then the clamp
RSeed ==
    /\ LoopDone("r_paths")
    /\ scorer' = [scorer EXCEPT !.pc = "clamp", !.pending = RSeedEntries(content)]
    /\ UNCHANGED scorerOthers

(***************************************************************************)
(* QualityScorer.score_python_script                                       *)
(***************************************************************************)
\* variant of the wildcard issue: the points of a hardcoded path
WildcardEntryTwenty(line) ==
    Entry("critical", Issue("missing_import", line, "", "", 20), 20)

WildcardEntry(line) ==
    Entry("critical", Issue("missing_import", line, "", "", 10), 10)

PySeedEntries(c) ==
    IF PyHasRandom(c) /\ ~PyHasSeed(c)
    THEN <<Entry("major", Issue("missing_seed", 0, "", "", 10), 10)>>
    ELSE <<>>

PyDocstringEntries(c) ==
    IF CheckMissingDocstring(c)
    THEN <<Entry("minor", Issue("missing_docstring", 0, "", "", 1), 1)>>
    ELSE <<>>

\* check_python_syntax reports a SyntaxError: auto-fail and return
PySyntaxFail ==
    /\ Entered(".py")
    /\ env.probe # "ok"
    /\ scorer' = AutoFail(scorer, "syntax_error", ProbeDetails(env.probe))
    /\ UNCHANGED scorerOthers

\* the script parses: check_hardcoded_paths, loop over its lines
PyPaths ==
    /\ Entered(".py")
    /\ env.probe = "ok"
    /\ scorer' = [scorer EXCEPT
                    !.pc = "py_paths",
                    !.pending = [j \in 1..Len(CheckHardcodedPaths(content)) |->
                                    HardcodedPathEntry(CheckHardcodedPaths(content)[j])]]
    /\ UNCHANGED scorerOthers

\* check_wildcard_imports, loop over its lines
PyWildcards ==
    /\ LoopDone("py_paths")
    /\ scorer' = [scorer EXCEPT
                    !.pc = "py_wild",
                    !.pending = [j \in 1..Len(CheckWildcardImports(content)) |->
                                    WildcardEntry(CheckWildcardImports(content)[j])]]
    /\ UNCHANGED scorerOthers

\* the seed check
PySeed ==
    /\ LoopDone("py_wild")
    /\ scorer' = [scorer EXCEPT !.pc = "py_seed", !.pending = PySeedEntries(content)]
    /\ UNCHANGED scorerOthers

\* the docstring check, then the clamp
PyDocstring ==
    /\ LoopDone("py_seed")
    /\ scorer' = [scorer EXCEPT !.pc = "clamp", !.pending = PyDocstringEntries(content)]
    /\ UNCHANGED scorerOthers

(***************************************************************************)
(* QualityScorer.score_beamer                                              *)
(***************************************************************************)
\* one critical issue per diagnostic of check_latex_syntax
BeamerSyntaxIssues(diags) ==
    [j \in 1..Len(diags) |->
        Issue("compilation_failure", diags[j].line, "", diags[j].kind, 100)]

BeamerCiteEntry(key) ==
    Entry("critical", Issue("undefined_citation", 0, key, "", 15), 15)

BeamerOverfullEntry(line) ==
    Entry("critical", Issue("overfull_hbox", line, "", "overfull", 10), 10)

BeamerEqEntry(line) ==
    Entry("critical", Issue("overfull_hbox", line, "", "equation", 10), 10)

\* bib_file: the one two directories up, else the one beside the document
BeamerBib == IF env.bib_up.exists THEN env.bib_up ELSE env.bib_here

\* the citation loop of score_beamer, entered from pc
BeamerCitationsFrom(sc, order) ==
    [sc EXCEPT !.pc = "b_cite",
               !.pending = [j \in 1..Len(order) |-> BeamerCiteEntry(order[j])]]

\* variant of the structural failure: no return, the checks go on
BeamerSyntaxFailGoesOn ==
    /\ Entered(".tex")
    /\ CheckLatexSyntax(content) # <<>>
    /\ \E order \in IterOrders(CheckBrokenCitations(content, BeamerBib)) :
          /\ scorer' = BeamerCitationsFrom(
                          [scorer EXCEPT
                             !.issues.critical =
                                 @ \o BeamerSyntaxIssues(CheckLatexSyntax(content)),
                             !.auto_fail = TRUE,
                             !.score = 0], order)
          /\ hashseed' = Seeded(order)
    /\ UNCHANGED iterOthers

\* check_latex_syntax returns diagnostics: one issue each, auto-fail, return
BeamerSyntaxFail ==
    /\ Entered(".tex")
    /\ CheckLatexSyntax(content) # <<>>
    /\ scorer' = [scorer EXCEPT
                    !.issues.critical = @ \o BeamerSyntaxIssues(CheckLatexSyntax(content)),
                    !.auto_fail = TRUE,
                    !.score = 0,
                    !.pc = "report"]
    /\ UNCHANGED scorerOthers

\* no diagnostics: check_broken_citations, loop over the returned list
BeamerCitations ==
    /\ Entered(".tex")
    /\ CheckLatexSyntax(content) = <<>>
    /\ \E order \in IterOrders(CheckBrokenCitations(content, BeamerBib)) :
          /\ scorer' = BeamerCitationsFrom(scorer, order)
          /\ hashseed' = Seeded(order)
    /\ UNCHANGED iterOthers

\* check_overfull_hbox_risk, loop over its lines
BeamerOverfull ==
    /\ LoopDone("b_cite")
    /\ scorer' = [scorer EXCEPT
                    !.pc = "b_hbox",
                    !.pending = [j \in 1..Len(CheckOverfullHboxRisk(content)) |->
                                    BeamerOverfullEntry(CheckOverfullHboxRisk(content)[j])]]
    /\ UNCHANGED scorerOthers

\* check_equation_overflow, loop over its lines, then the clamp
BeamerEquations ==
    /\ LoopDone("b_hbox")
    /\ scorer' = [scorer EXCEPT
                    !.pc = "clamp",
                    !.pending = [j \in 1..Len(CheckEquationOverflow(content)) |->
                                    BeamerEqEntry(CheckEquationOverflow(content)[j])]]
    /\ UNCHANGED scorerOthers

(***************************************************************************)
(* The documents and surroundings the scorer is run on.                    *)
(***************************************************************************)
RECURSIVE JoinLines(_)
\* '\n'.join(lines)
JoinLines(lines) ==
    IF lines = <<>> THEN <<>>
    ELSE IF Len(lines) = 1 THEN lines[1]
    ELSE lines[1] \o <<NL>> \o JoinLines(Tail(lines))

\* the texts of at most max lines drawn from lineset
DocsOf(lineset, max) ==
    {JoinLines(q) : q \in UNION {[1..n -> lineset] : n \in 0..max}}

AllKeys == <<"smith2020", "jones2019", "doe2021">>

Bibs == {NoBib,
         [exists |-> TRUE, entries |-> <<"smith2020">>],
         [exists |-> TRUE, entries |-> AllKeys]}

Htmls == {NoHtml} \cup {[exists |-> TRUE, widgets |-> n] : n \in 0..MaxWidgets}

\* a file that exists and can be read
FileEnv(suffix, probe, bib_up, bib_here, html) ==
    [suffix |-> suffix, exists |-> TRUE, readable |-> TRUE, probe |-> probe,
     bib_up |-> bib_up, bib_here |-> bib_here, html |-> html]

\* a file that exists and whose bytes are not UTF-8 text
Unreadable(suffix) ==
    [content |-> <<>>,
     env |-> [FileEnv(suffix, "ok", NoBib, NoBib, NoHtml) EXCEPT !.readable = FALSE]]

ProbeFailures == {"fail", "timeout", "not_installed"}

QmdLineSet ==
    {<<FENCE, Txt(LineLimit + 1), FENCE, Cite(<<"smith2020">>)>>,
     <<FENCE, Txt(LineLimit + 1), FENCE, LBR, At("jones2019"), RBR, Plotly>>,
     <<FENCE>>,
     <<Txt(LineLimit + 1)>>,
     <<At("smith2020"), SP, Email("example.com"), SP, At("fig")>>}

QmdFiles ==
    {[content |-> c, env |-> FileEnv(".qmd", "ok", b, NoBib, h)] :
        c \in DocsOf(QmdLineSet, MaxQmdLines), b \in Bibs, h \in Htmls}
    \cup {[content |-> c, env |-> FileEnv(".qmd", p, NoBib, NoBib, NoHtml)] :
        c \in DocsOf(QmdLineSet, MaxQmdLines), p \in ProbeFailures}
    \cup {Unreadable(".qmd")}

TexLineSet ==
    {<<Begin("frame"), FENCE, Txt(LineLimit + 1), FENCE, Cite(AllKeys)>>,
     <<FENCE, Txt(LineLimit + 1), FENCE>>,
     <<End("frame")>>,
     <<Begin("itemize")>>}

TexFiles ==
    {[content |-> c, env |-> FileEnv(".tex", "ok", b1, b2, NoHtml)] :
        c \in DocsOf(TexLineSet, MaxTexLines),
        b1 \in {NoBib, [exists |-> TRUE, entries |-> <<"smith2020">>]},
        b2 \in {NoBib, [exists |-> TRUE, entries |-> AllKeys]}}
    \cup {Unreadable(".tex")}

PyLineSet ==
    {<<DocQ, Txt(10), DocQ>>,
     <<WildImport>>,
     <<NpRandom>>,
     <<NpSeed>>,
     <<WildImport, SP, AbsPath, SP, NpRandom>>,
     <<Url, SP, AbsPath>>}

PyFiles ==
    {[content |-> c, env |-> FileEnv(".py", p, NoBib, NoBib, NoHtml)] :
        c \in DocsOf(PyLineSet, MaxPyLines), p \in {"ok", "fail"}}
    \cup {Unreadable(".py")}

RLineSet ==
    {<<AbsPath, SP, RNorm>>,
     <<SetSeed>>,
     <<TmpPath>>}

RFiles ==
    {[content |-> c, env |-> FileEnv(".R", p, NoBib, NoBib, NoHtml)] :
        c \in DocsOf(RLineSet, MaxRLines), p \in {"ok"} \cup ProbeFailures}
    \cup {Unreadable(".R")}

ScoreFiles == QmdFiles \cup TexFiles \cup PyFiles \cup RFiles

(***************************************************************************)
(* Specification of one scorer run: QualityScorer(filepath) followed by    *)
(* the score_* method of the file's class.                                 *)
(***************************************************************************)
InitScore ==
    /\ \E f \in ScoreFiles : content = f.content /\ env = f.env
    /\ scorer = NewScorer
    /\ syn = SynIdle
    /\ eqo = EqIdle
    /\ mainf = MainIdle
    /\ AtRest({"cit", "hbx"})

ScoreStep ==
    \/ ScoreRaise
    \/ RecordIssue
    \/ ClampScore
    \/ GenerateReport
    \/ QuartoCompileFail
    \/ QuartoEquations
    \/ QuartoCitations
    \/ QuartoPlotly
    \/ RSyntaxFail
    \/ RPaths
    \/ RSeed
    \/ PySyntaxFail
    \/ PyPaths
    \/ PyWildcards
    \/ PySeed
    \/ PyDocstring
    \/ BeamerSyntaxFail
    \/ BeamerCitations
    \/ BeamerOverfull
    \/ BeamerEquations

NextScore == ScoreStep

SpecScore == InitScore /\ [][NextScore]_vars

(***************************************************************************)
(* Claims about the reports of the four scoring operations.                *)
(***************************************************************************)
\* a scoring operation has returned its report
Returned == scorer.pc = "done"

\* the issues of a report, all severities
AllIssues(r) == r.issues.critical \o r.issues.major \o r.issues.minor

RECURSIVE SumPoints(_)
SumPoints(q) == IF q = <<>> THEN 0 ELSE Head(q).points + SumPoints(Tail(q))

\* the kinds the rubrics tag auto_fail
AutoFailKinds == {"compilation_failure", "syntax_error"}

HasAutoFailIssue(r) ==
    \E j \in 1..Len(AllIssues(r)) : AllIssues(r)[j].type \in AutoFailKinds

\* the issues of the scorer filed under the severity sev
Filed(sev) == {scorer.issues[sev][j] : j \in 1..Len(scorer.issues[sev])}

\* C22: every recorded issue is filed under the severity in which the rubric
\* of the document's class lists its kind, and carries the points the rubric
\* gives to that kind (so a defect found n times is n issues of that value).
C22_IssuesFollowRubric ==
    \A sev \in {"critical", "major", "minor"} : \A issue \in Filed(sev) :
        \E row \in RubricOf(env.suffix) :
            /\ row.severity = sev
            /\ row.kind = issue.type
            /\ row.points = issue.points

\* the same, the plotly issue set aside
C22_IssuesFollowRubricButPlotly ==
    \A sev \in {"critical", "major", "minor"} : \A issue \in Filed(sev) :
        issue.type # "missing_plotly_chart" =>
            \E row \in RubricOf(env.suffix) :
                /\ row.severity = sev
                /\ row.kind = issue.type
                /\ row.points = issue.points

\* C1: in every report 0 <= score <= 100, and the score is 0 whenever the
\* report is an auto-fail (auto_fail true, or an issue of an auto-fail kind).
C1_ScoreInRange ==
    Returned =>
        /\ 0 <= scorer.report.score
        /\ scorer.report.score <= 100
        /\ (scorer.report.auto_fail \/ HasAutoFailIssue(scorer.report))
              => scorer.report.score = 0

\* a report without auto-fail whose deductions exceed 100 points
C1_Witness ==
    /\ Returned
    /\ ~scorer.report.auto_fail
    /\ SumPoints(AllIssues(scorer.report)) > 100
    /\ scorer.report.score = 0

\* C2: without auto-fail the score is max(0, 100 - sum of the points of all
\* issues of the report); with auto-fail it is 0.
C2_ScoreIsHundredMinusPoints ==
    Returned =>
        IF scorer.report.auto_fail
        THEN scorer.report.score = 0
        ELSE LET rest == 100 - SumPoints(AllIssues(scorer.report))
             IN scorer.report.score = IF rest > 0 THEN rest ELSE 0

\* a report with issues of all three severities and a score strictly between
\* 0 and 100
C2_Witness ==
    /\ Returned
    /\ ~scorer.report.auto_fail
    /\ scorer.report.issues.critical # <<>>
    /\ scorer.report.issues.major # <<>>
    /\ scorer.report.issues.minor # <<>>
    /\ scorer.report.score > 0
    /\ scorer.report.score = 100 - SumPoints(AllIssues(scorer.report))

\* C4: without auto-fail the status is the highest threshold the score
\* meets: EXCELLENCE from 95, PR_READY from 90, COMMIT_READY from 80, else
\* BLOCKED.
C4_StatusByThreshold ==
    (Returned /\ ~scorer.report.auto_fail) =>
        scorer.report.status =
            IF scorer.report.score >= 95 THEN "EXCELLENCE"
            ELSE IF scorer.report.score >= 90 THEN "PR_READY"
            ELSE IF scorer.report.score >= 80 THEN "COMMIT_READY"
            ELSE "BLOCKED"

\* a report whose score is exactly the commit threshold
C4_Witness ==
    /\ Returned
    /\ ~scorer.report.auto_fail
    /\ scorer.report.score = 80
    /\ scorer.report.status = "COMMIT_READY"

\* C25: the status of a report is FAIL if and only if the report is an
\* auto-fail; a document that the deductions alone bring to 0 is BLOCKED.
C25_FailIffAutoFail ==
    Returned =>
        /\ (scorer.report.status = "FAIL") <=> scorer.report.auto_fail
        /\ (scorer.report.score = 0 /\ ~scorer.report.auto_fail) =>
              scorer.report.status = "BLOCKED"

\* a report brought to 0 by its deductions, without auto-fail
C25_Witness ==
    /\ Returned
    /\ ~scorer.report.auto_fail
    /\ scorer.report.score = 0
    /\ SumPoints(AllIssues(scorer.report)) >= 100
    /\ scorer.report.status = "BLOCKED"

\* C5: when check_latex_syntax returns diagnostics for a .tex document the
\* report is an auto-fail with score 0 whose only issues are the structural
\* ones, one per diagnostic: no citation, overfull or equation issue.
C5_BeamerStructuralFailureStops ==
    (Returned /\ env.suffix = ".tex" /\ CheckLatexSyntax(content) # <<>>) =>
        /\ scorer.report.auto_fail
        /\ scorer.report.score = 0
        /\ scorer.report.issues.major = <<>>
        /\ scorer.report.issues.minor = <<>>
        /\ Len(scorer.report.issues.critical) = Len(CheckLatexSyntax(content))
        /\ \A j \in 1..Len(scorer.report.issues.critical) :
              scorer.report.issues.critical[j].type = "compilation_failure"

\* an unbalanced .tex document that also has an unresolved citation, an
\* overlong line in a frame and an overlong equation line has been reported
C5_Witness ==
    /\ Returned
    /\ env.suffix = ".tex"
    /\ CheckLatexSyntax(content) # <<>>
    /\ CheckBrokenCitations(content, BeamerBib) # {}
    /\ CheckOverfullHboxRisk(content) # <<>>
    /\ CheckEquationOverflow(content) # <<>>
    /\ scorer.report.auto_fail

\* C6: when the compilation probe fails for a .qmd document the report has
\* score 0, status FAIL, auto_fail true, exactly one critical issue and no
\* major or minor issue, whatever the text contains.
C6_QuartoCompileFailureReport ==
    (Returned /\ env.suffix = ".qmd" /\ env.probe # "ok") =>
        /\ scorer.report.score = 0
        /\ scorer.report.status = "FAIL"
        /\ scorer.report.auto_fail
        /\ Len(scorer.report.issues.critical) = 1
        /\ scorer.report.issues.critical[1].type = "compilation_failure"
        /\ scorer.report.issues.major = <<>>
        /\ scorer.report.issues.minor = <<>>

\* a .qmd document that does not compile and whose text has an overlong
\* equation line, unresolved citations and a chart call has been reported
C6_Witness ==
    /\ Returned
    /\ env.suffix = ".qmd"
    /\ env.probe # "ok"
    /\ CheckEquationOverflow(content) # <<>>
    /\ QuartoAllBroken(content, env.bib_up) # {}
    /\ ExpectedPlotly(content) > 0
    /\ scorer.report.status = "FAIL"

\* C16: when the toolchain of the external probe is not installed, or the
\* probe runs into its timeout, the scoring operation returns (no exception
\* leaves it) an auto-fail report: auto_fail true, score 0, status FAIL and
\* one issue, of a compilation or syntax kind, whose details name the cause.
C16_ProbeUnavailableAutoFails ==
    (env.readable /\ env.probe \in {"timeout", "not_installed"}) =>
        /\ scorer.pc # "raised"
        /\ Returned =>
              /\ scorer.report.auto_fail
              /\ scorer.report.score = 0
              /\ scorer.report.status = "FAIL"
              /\ Len(AllIssues(scorer.report)) = 1
              /\ Len(scorer.report.issues.critical) = 1
              /\ scorer.report.issues.critical[1].type \in AutoFailKinds
              /\ scorer.report.issues.critical[1].details =
                    (IF env.probe = "timeout" THEN "timeout" ELSE "not installed")

\* an R script with a hardcoded path has been reported while Rscript is
\* not installed
C16_Witness ==
    /\ Returned
    /\ env.suffix = ".R"
    /\ env.probe = "not_installed"
    /\ CheckHardcodedPaths(content) # <<>>
    /\ scorer.report.status = "FAIL"
    /\ scorer.report.issues.critical[1].details = "not installed"

\* a Python script that parses, has a wildcard import and uses randomness
\* without setting a seed
WildcardUnseeded ==
    /\ env.suffix = ".py"
    /\ env.probe = "ok"
    /\ HasKind(content, "wildimport")
    /\ HasKind(content, "np.random")
    /\ ~HasKind(content, "np.random.seed")

\* the report of scenario A: one critical issue of 10 points, one major
\* issue of 10 points, nothing else, score 80, COMMIT_READY
TwoIssueReport(r) ==
    /\ Len(r.issues.critical) = 1
    /\ r.issues.critical[1].points = 10
    /\ Len(r.issues.major) = 1
    /\ r.issues.major[1].points = 10
    /\ r.issues.minor = <<>>
    /\ r.score = 80
    /\ r.status = "COMMIT_READY"

\* C17 as stated: every analysis script with a wildcard import and unseeded
\* randomness gets the two-issue report (score 80, COMMIT_READY).
C17_WildcardUnseededScoresEighty ==
    (Returned /\ WildcardUnseeded) => TwoIssueReport(scorer.report)

\* C17 amended: the two-issue report is returned when, besides, the script
\* has exactly one wildcard import, no quoted absolute path, and begins with
\* a docstring.
C17_CleanWildcardUnseededScoresEighty ==
    (/\ Returned
     /\ WildcardUnseeded
     /\ CountKind(content, "wildimport") = 1
     /\ ~HasKind(content, "abspath")
     /\ content # <<>>
     /\ Head(content).k = "docq") => TwoIssueReport(scorer.report)

\* a script with a docstring, one wildcard import and an unseeded random
\* call has been reported
C17_Witness ==
    /\ Returned
    /\ WildcardUnseeded
    /\ CountKind(content, "wildimport") = 1
    /\ ~HasKind(content, "abspath")
    /\ content # <<>>
    /\ Head(content).k = "docq"
    /\ scorer.report.score = 80

\* C19 as stated: the score starts at 100 and no step of the scoring of a
\* document, the final clamp included, raises it.
C19_ScoreNeverIncreases ==
    scorer.score = 100 /\ [][scorer'.score <= scorer.score]_vars

\* C19 amended: the score starts at 100 and no step raises it, except the
\* final clamp, which lifts a negative score to 0.
C19_ScoreNeverIncreasesBeforeClamp ==
    /\ scorer.score = 100
    /\ [][\/ scorer'.score <= scorer.score
           \/ /\ scorer.pc = "clamp"
              /\ scorer.score < 0
              /\ scorer'.score = 0]_vars

\* the clamp has just lifted a score that the deductions had taken below 0
C19_Witness ==
    /\ scorer.pc = "report"
    /\ ~scorer.auto_fail
    /\ scorer.score = 0
    /\ 100 - SumPoints(scorer.issues.critical \o scorer.issues.major
                         \o scorer.issues.minor) < 0

(***************************************************************************)
(* Claims about the citations of a scored document.                        *)
(***************************************************************************)
\* the keys cited through the backslash-command syntax
BackslashKeys(c) ==
    {key \in {AllKeys[n] : n \in 1..Len(AllKeys)} :
        \E j \in 1..Len(c) :
            c[j].k = "cite" /\ \E n \in 1..Len(c[j].keys) : c[j].keys[n] = key}

\* position j lies between a "[" and the first "]" after that "["
InBrackets(c, j) ==
    \E a \in 1..(j - 1) :
        /\ c[a].k = "lbr"
        /\ \A x \in a..j : c[x].k # "rbr"
        /\ \E b \in (j + 1)..Len(c) : c[b].k = "rbr"

\* the keys cited through the at-sign syntax: bracket-grouped, or standalone
\* and neither e-mail-like nor a reserved cross-reference word
AtSignKeys(c) ==
    {c[j].name : j \in {x \in 1..Len(c) :
        \/ c[x].k \in {"at", "email"} /\ InBrackets(c, x)
        \/ c[x].k = "at" /\ c[x].name \notin {"fig", "tbl", "sec", "eq", "lst"}}}

\* the keys the bibliography declares; none if there is no bibliography
DeclaredKeys(bib) ==
    IF bib.exists THEN {bib.entries[j] : j \in 1..Len(bib.entries)} ELSE {}

\* the keys of the citation issues of a report
ReportedKeys(r, type) ==
    {r.issues.critical[j].key :
        j \in {x \in 1..Len(r.issues.critical) : r.issues.critical[x].type = type}}

\* C11: for a .qmd document that compiles, the keys reported as broken
\* citations are the keys cited by backslash command or by at-sign, minus
\* the keys the bibliography declares.
C11_BrokenKeysAreCitedMinusDeclared ==
    (Returned /\ env.suffix = ".qmd" /\ ~scorer.report.auto_fail) =>
        ReportedKeys(scorer.report, "broken_citation") =
            (BackslashKeys(content) \cup AtSignKeys(content)) \ DeclaredKeys(env.bib_up)

\* smith2020 cited by backslash command, jones2019 by at-sign in brackets,
\* a bibliography declaring only smith2020: exactly jones2019 is reported
C11_Witness ==
    /\ Returned
    /\ env.suffix = ".qmd"
    /\ BackslashKeys(content) = {"smith2020"}
    /\ \E j \in 1..Len(content) : content[j] = At("jones2019") /\ InBrackets(content, j)
    /\ env.bib_up = [exists |-> TRUE, entries |-> <<"smith2020">>]
    /\ ReportedKeys(scorer.report, "broken_citation") = {"jones2019"}

\* the list q names every key of S, each key once
ListsOnce(q, S) ==
    /\ {q[j] : j \in 1..Len(q)} = S
    /\ \A j, n \in 1..Len(q) : q[j] = q[n] => j = n

\* C12: without a bibliography file check_broken_citations and
\* check_quarto_citations return every key cited in the document, each once.
C12_NoBibliographyAllCitedKeys ==
    (cit.pc = "done" /\ ~env.bib_up.exists) =>
        /\ cit.fn = "latex" => ListsOnce(cit.result, BackslashKeys(content))
        /\ cit.fn = "quarto" => ListsOnce(cit.result, AtSignKeys(content))

\* a checker has returned two keys for a document that cites one of them
\* twice, there being no bibliography
C12_Witness ==
    /\ cit.pc = "done"
    /\ ~env.bib_up.exists
    /\ Len(cit.result) = 2
    /\ \E j, n \in 1..Len(content) :
          /\ j < n
          /\ \/ content[j].k = "cite" /\ content[n].k = "cite" /\ cit.fn = "latex"
             \/ content[j] = At("jones2019") /\ content[n] = At("jones2019")
                /\ cit.fn = "quarto"

(***************************************************************************)
(* main: the loop over args.filepaths and the exit code.                   *)
(***************************************************************************)
SupportedSuffixes == {".qmd", ".R", ".py", ".tex"}

\* exit_code = 1 for a path that does not exist
ExitAfterMissing(exit_code) == 1

\* exit_code = 1 in the except branch
ExitAfterException(exit_code) == 1

\* the exit code after a report has been collected
ExitAfterReport(exit_code, report) ==
    IF report.auto_fail THEN (IF exit_code > 2 THEN exit_code ELSE 2)
    ELSE IF report.score < ThresholdCommit
         THEN (IF exit_code > 1 THEN exit_code ELSE 1)
    ELSE exit_code

MainInLoop == mainf.pc = "loop" /\ mainf.idx <= Len(mainf.files)
MainFile == mainf.files[mainf.idx]

\* not filepath.exists(): report, exit_code = 1, continue
MainMissing ==
    /\ MainInLoop
    /\ ~MainFile.env.exists
    /\ mainf' = [mainf EXCEPT !.exit_code = ExitAfterMissing(@), !.idx = @ + 1]
    /\ UNCHANGED <<content, env, scorer>>
    /\ UNCHANGED mainOthers

\* a suffix that is none of .qmd, .R, .py, .tex: report and continue
MainUnsupported ==
    /\ MainInLoop
    /\ MainFile.env.exists
    /\ MainFile.env.suffix \notin SupportedSuffixes
    /\ mainf' = [mainf EXCEPT !.idx = @ + 1]
    /\ UNCHANGED <<content, env, scorer>>
    /\ UNCHANGED mainOthers

\* variant of the dispatch: the scorer of the previous file is used again
MainDispatchKeepsScorer ==
    /\ MainInLoop
    /\ MainFile.env.exists
    /\ MainFile.env.suffix \in SupportedSuffixes
    /\ content' = MainFile.content
    /\ env' = MainFile.env
    /\ scorer' = IF scorer.pc = "done"
                 THEN [scorer EXCEPT !.pc = "new", !.report = NoReport]
                 ELSE NewScorer
    /\ mainf' = [mainf EXCEPT !.pc = "scoring"]
    /\ UNCHANGED mainOthers

\* scorer = QualityScorer(filepath) and the call of its score_* method
MainDispatch ==
    /\ MainInLoop
    /\ MainFile.env.exists
    /\ MainFile.env.suffix \in SupportedSuffixes
    /\ content' = MainFile.content
    /\ env' = MainFile.env
    /\ scorer' = NewScorer
    /\ mainf' = [mainf EXCEPT !.pc = "scoring"]
    /\ UNCHANGED mainOthers

\* the report is back: results.append(report), exit code, next file
MainCollect ==
    /\ mainf.pc = "scoring"
    /\ scorer.pc = "done"
    /\ mainf' = [mainf EXCEPT !.results = Append(@, scorer.report),
                              !.exit_code = ExitAfterReport(@, scorer.report),
                              !.idx = @ + 1,
                              !.pc = "loop"]
    /\ UNCHANGED <<content, env, scorer>>
    /\ UNCHANGED mainOthers

\* variant of the except branch: the loop over the files is left
MainExceptStops ==
    /\ mainf.pc = "scoring"
    /\ scorer.pc = "raised"
    /\ mainf' = [mainf EXCEPT !.exit_code = ExitAfterException(@),
                              !.idx = Len(mainf.files) + 1,
                              !.pc = "loop"]
    /\ UNCHANGED <<content, env, scorer>>
    /\ UNCHANGED mainOthers

\* except Exception: report, exit_code = 1, next file
MainExcept ==
    /\ mainf.pc = "scoring"
    /\ scorer.pc = "raised"
    /\ mainf' = [mainf EXCEPT !.exit_code = ExitAfterException(@),
                              !.idx = @ + 1,
                              !.pc = "loop"]
    /\ UNCHANGED <<content, env, scorer>>
    /\ UNCHANGED mainOthers

\* sys.exit(exit_code)
MainExit ==
    /\ mainf.pc = "loop"
    /\ mainf.idx > Len(mainf.files)
    /\ mainf' = [mainf EXCEPT !.pc = "exited"]
    /\ UNCHANGED <<content, env, scorer>>
    /\ UNCHANGED mainOthers

(***************************************************************************)
(* Specification of main over batches of files.                            *)
(***************************************************************************)
\* a path that does not exist
MissingFile ==
    [content |-> <<>>,
     env |-> [FileEnv(".tex", "ok", NoBib, NoBib, NoHtml) EXCEPT !.exists = FALSE]]

\* an existing file of a class the scorer does not know
OtherFile == [content |-> <<Txt(10)>>, env |-> FileEnv(".txt", "ok", NoBib, NoBib, NoHtml)]

MainFiles ==
    {MissingFile, OtherFile, Unreadable(".py"),
     [content |-> <<FENCE, Txt(LineLimit + 1), FENCE, Cite(<<"smith2020">>)>>,
      env |-> FileEnv(".qmd", "fail", NoBib, NoBib, NoHtml)],
     [content |-> <<FENCE, Txt(LineLimit + 1), FENCE, Cite(<<"smith2020">>)>>,
      env |-> FileEnv(".qmd", "ok", [exists |-> TRUE, entries |-> AllKeys], NoBib, NoHtml)],
     [content |-> <<SetSeed>>, env |-> FileEnv(".R", "not_installed", NoBib, NoBib, NoHtml)],
     [content |-> <<AbsPath, SP, RNorm, NL, AbsPath>>,
      env |-> FileEnv(".R", "ok", NoBib, NoBib, NoHtml)],
     [content |-> <<WildImport>>, env |-> FileEnv(".py", "fail", NoBib, NoBib, NoHtml)],
     [content |-> <<DocQ, Txt(10), DocQ, NL, NpSeed>>,
      env |-> FileEnv(".py", "ok", NoBib, NoBib, NoHtml)],
     [content |-> <<Begin("frame")>>, env |-> FileEnv(".tex", "ok", NoBib, NoBib, NoHtml)],
     [content |-> <<Begin("frame"), Cite(<<"doe2021">>), NL, End("frame")>>,
      env |-> FileEnv(".tex", "ok", NoBib, NoBib, NoHtml)],
     [content |-> <<Begin("frame"), Cite(<<"smith2020", "jones2019">>), NL, End("frame")>>,
      env |-> FileEnv(".tex", "ok", NoBib, NoBib, NoHtml)],
     [content |-> <<Cite(<<"smith2020">>), SP, LBR, At("jones2019"), RBR>>,
      env |-> FileEnv(".qmd", "ok", NoBib, NoBib, NoHtml)]}

\* args.filepaths: nargs='+', at least one path
Batches == UNION {[1..n -> MainFiles] : n \in 1..MaxBatch}

InitMain ==
    /\ \E b \in Batches : mainf = [MainIdle EXCEPT !.pc = "loop", !.files = b, !.idx = 1]
    /\ content = <<>>
    /\ env = EnvIdle
    /\ scorer = ScorerIdle
    /\ syn = SynIdle
    /\ eqo = EqIdle
    /\ AtRest({"cit", "hbx"})

MainStep ==
    \/ MainMissing
    \/ MainUnsupported
    \/ MainDispatch
    \/ MainCollect
    \/ MainExcept
    \/ MainExit

NextMain == MainStep \/ ScoreStep

SpecMain == InitMain /\ [][NextMain]_vars

(***************************************************************************)
(* Specification of the command run twice on the same paths, each run a    *)
(* process of its own.                                                     *)
(***************************************************************************)
\* the first process has exited: what it printed is kept, and a second
\* interpreter starts main on the same arguments
RunAgain ==
    /\ mainf.pc = "exited"
    /\ history = <<>>
    /\ history' = <<mainf.results>>
    /\ mainf' = [MainIdle EXCEPT !.pc = "loop", !.files = mainf.files, !.idx = 1]
    /\ hashseed' = {}
    /\ content' = <<>>
    /\ env' = EnvIdle
    /\ scorer' = ScorerIdle
    /\ UNCHANGED <<syn, eqo, cit, hbx>>

NextRerun == NextMain \/ RunAgain

SpecRerun == InitMain /\ [][NextRerun]_vars

(***************************************************************************)
(* Claims about main.                                                      *)
(***************************************************************************)
\* C13: two independent runs on the same documents return identical
\* reports: the same scores, statuses and issue lists, the issues of each
\* severity in the same order.
C13_IndependentRunsSameReports ==
    (mainf.pc = "exited" /\ history # <<>>) => mainf.results = history[1]

\* file j of the batch is one that main hands to a score_* method and whose
\* text can be read
Scorable(j) ==
    /\ mainf.files[j].env.exists
    /\ mainf.files[j].env.suffix \in SupportedSuffixes
    /\ mainf.files[j].env.readable

\* the place in results of the report of file j
ResultIndex(j) == Cardinality({x \in 1..j : Scorable(x)})

\* C14: a document scored twice by one run of the command gets the same
\* report both times: nothing of the first scoring is left in the second.
C14_ScoredTwiceSameReport ==
    mainf.pc = "exited" =>
        \A j, n \in 1..Len(mainf.files) :
            (j < n /\ mainf.files[j] = mainf.files[n] /\ Scorable(j)) =>
                mainf.results[ResultIndex(j)] = mainf.results[ResultIndex(n)]

\* the same document with two unresolved citations has been scored twice
C14_Witness ==
    /\ mainf.pc = "exited"
    /\ Len(mainf.files) = 2
    /\ mainf.files[1] = mainf.files[2]
    /\ Len(mainf.results) = 2
    /\ Len(mainf.results[1].issues.critical) = 2
    /\ mainf.results[1].score = 70
    /\ mainf.results[2] = mainf.results[1]

\* no file of the batch makes its scoring raise an exception
NoFault ==
    \A j \in 1..Len(mainf.files) :
        (mainf.files[j].env.exists /\ mainf.files[j].env.suffix \in SupportedSuffixes)
            => mainf.files[j].env.readable

\* the exit status the batch deserves: the worst over its documents
WorstCode ==
    IF \E j \in 1..Len(mainf.results) : mainf.results[j].auto_fail THEN 2
    ELSE IF \/ \E j \in 1..Len(mainf.results) : mainf.results[j].score < ThresholdCommit
            \/ \E j \in 1..Len(mainf.files) : ~mainf.files[j].env.exists
         THEN 1
    ELSE 0

\* C3: after main has processed the batch the exit status is 2 if a document
\* auto-failed, otherwise 1 if a document scored below the commit threshold
\* or a file could not be found, otherwise 0, whatever the order of the
\* documents.
C3_WorstExitCodeWins ==
    (mainf.pc = "exited" /\ NoFault) => mainf.exit_code = WorstCode

\* file j of the batch is missing, or its scoring raises an exception
Faulty(j) ==
    \/ ~mainf.files[j].env.exists
    \/ mainf.files[j].env.suffix \in SupportedSuffixes /\ ~mainf.files[j].env.readable

\* the scoring of file j ends in an auto-fail
AutoFails(j) ==
    IF mainf.files[j].env.suffix = ".tex"
    THEN CheckLatexSyntax(mainf.files[j].content) # <<>>
    ELSE mainf.files[j].env.probe # "ok"

\* C15: a missing file or an exception raised while scoring a document does
\* not stop the batch: every document that can be scored has its report in
\* results, in order, and the faulty document alone counts as failed (exit
\* status at least 1, and exactly 1 when every collected report passes).
C15_FaultDoesNotStopBatch ==
    mainf.pc = "exited" =>
        /\ Len(mainf.results) = Cardinality({j \in 1..Len(mainf.files) : Scorable(j)})
        /\ \A j \in 1..Len(mainf.files) :
              Scorable(j) => mainf.results[ResultIndex(j)].auto_fail = AutoFails(j)
        /\ (\E j \in 1..Len(mainf.files) : Faulty(j)) =>
              /\ mainf.exit_code >= 1
              /\ (\A n \in 1..Len(mainf.results) :
                     /\ ~mainf.results[n].auto_fail
                     /\ mainf.results[n].score >= ThresholdCommit)
                    => mainf.exit_code = 1

\* an unreadable file came first, the passing document after it was scored
C15_Witness ==
    /\ mainf.pc = "exited"
    /\ Len(mainf.files) = 2
    /\ mainf.files[1] = Unreadable(".py")
    /\ Scorable(2)
    /\ Len(mainf.results) = 1
    /\ mainf.results[1].score >= ThresholdCommit
    /\ mainf.exit_code = 1

====
